---------------------------- MODULE Spec2Model ----------------------------
(***************************************************************************)
(* Model of the Hikaya storyteller servers:                                *)
(*   fixed    = src/voice_storyteller_server_fixed.py                      *)
(*   improved = src/improved_mcp_storyteller.py                            *)
(*   real     = src/real_mcp_storyteller.py                                *)
(* The three files are near-duplicates of one service; the variable        *)
(* `variant` says which of them the modelled process runs.                 *)
(*                                                                         *)
(* Text.  A text is modelled after str.split(): a sequence of words.  A    *)
(* word keeps what the code reads of it:                                   *)
(*   n   its number of characters,                                         *)
(*   d   the 1-based place of its last '.' (0: it has none),               *)
(*   c   how many '.' it holds,                                            *)
(*   has the needles (lower-case substrings the ranker looks for) that     *)
(*       occur in its lower-cased form,                                    *)
(*   hc  the needles that occur in its first d characters (what is left    *)
(*       of it when the text is cut right after its last '.').             *)
(* " ".join(words) puts one blank between words, so character offsets are  *)
(* sums of n + 1.                                                          *)
(***************************************************************************)
EXTENDS Integers, Sequences, FiniteSets, TLC

VARIABLES
    variant,           \* which server file runs: "fixed", "improved" or "real"
    adj_in,            \* length adjuster under test: [text, target]
    adj_out,           \* << >> before the call, << result >> after it
    rk_in,             \* ranker under test: [story, target, moral]
    rk_out,            \* the scores successive calls returned
    claude_available,  \* ClaudeStoryGenerator.available
    p_pc,              \* pipeline run: "idle", "gather", "done"
    p_req,             \* its arguments: [moral, target]
    p_task,            \* per agent: "new", "await_enhance", "await_claude", "done"
    p_stories,         \* per agent << >> or << Story >>; after ranking, the sorted list
    p_result,          \* << >> or << the dict returned >>
    p_raised,          \* an exception left the pipeline
    voice_engines,     \* the module's voice_engines dict: engine -> available
    voice_profiles,    \* VoiceNarrationEngine.voice_profiles, in insertion order
    calls,             \* the narrate_story calls of the process, by arrival
    now,               \* int(time.time())
    files,             \* the files of temp_dir: {[name, size, by]}
    p_order,           \* the agents of the run, in the order their tasks finished
    listed,            \* << >> or << what get_available_voices returned >>
    g_pc,              \* per generate_story call of the remote generator:
                       \* "idle", "waiting", "done"
    g_out,             \* per call, the requests sent to the Messages API for it
    g_ret,             \* per call, << >> or << how it ended >>
    r_pc,              \* request handler: "idle", "story", "narrate", "done"
    r_req,             \* the request: [tool, moral, length, voice_id, audio, text]
    r_story,           \* << >> or << the story result the handler holds >>
    r_resp,            \* << >> or << the payload the handler returned >>
    r_raised,          \* an exception left the handler
    pad                \* the padding loop of a length adjuster call:
                       \* [pc, words, pool, rounds]

vars == << variant, adj_in, adj_out, rk_in, rk_out, claude_available,
           p_pc, p_req, p_task, p_stories, p_result, p_raised,
           voice_engines, voice_profiles, calls, now, files, p_order,
           listed, g_pc, g_out, g_ret, r_pc, r_req, r_story, r_resp, r_raised,
           pad >>

list_vars == << listed >>
loop_vars == << pad >>
remote_vars == << g_pc, g_out, g_ret >>
req_vars == << r_pc, r_req, r_story, r_resp, r_raised >>

Variants == {"fixed", "improved", "real"}

ListIdle == listed = << >>

LoopIdle == pad = [pc |-> "idle", words |-> << >>, pool |-> << >>, rounds |-> 0]

ReqIdle ==
    /\ r_pc = "idle"
    /\ r_req = << >>
    /\ r_story = << >>
    /\ r_resp = << >>
    /\ r_raised = FALSE

----------------------------------------------------------------------------
(* Bounds of the model *)

\* length adjuster inputs
MaxWords == 4
MaxAdjTarget == 14

\* ranker inputs
LenStep == 7
MaxLenSteps == 9
TargetStep == 13
MaxTargetSteps == 5
MaxRankCalls == 2

\* pipeline inputs
NumAgents == 2
MaxSmallTarget == 1
MaxDeficit == 2
MaxTemplateDeficit == 7

\* narration: calls of a process (SpecNarrate), calls of a process that
\* share its temp_dir (SpecShare), seconds the clock advances
NumCalls == 1
NumSharing == 2
MaxClock == 1

NumInvocations == 2

----------------------------------------------------------------------------
(* Words and texts *)

X(n, d, c, has) == [n |-> n, d |-> d, c |-> c, has |-> has, hc |-> has]

\* a word part of whose needles lie after its last '.'
XC(n, d, c, has, hc) == [n |-> n, d |-> d, c |-> c, has |-> has, hc |-> hc]

P(n) == X(n, 0, 0, {})

Range(s) == {s[i] : i \in 1..Len(s)}

Min(a, b) == IF a < b THEN a ELSE b

Max(a, b) == IF a > b THEN a ELSE b

Abs(a) == IF a < 0 THEN 0 - a ELSE a

\* len(text.split())
WordCount(words) == Len(words)

\* words[:k] of a Python list: a negative k counts from the end
SliceTo(words, k) ==
    LET m == IF k >= 0 THEN Min(k, Len(words)) ELSE Max(0, Len(words) + k)
    IN  SubSeq(words, 1, m)

\* 0-based offset of word i in " ".join(words)
RECURSIVE CharStart(_, _)
CharStart(words, i) ==
    IF i <= 1 THEN 0 ELSE CharStart(words, i - 1) + words[i - 1].n + 1

\* the words that hold a '.'
DotWords(words) == {i \in 1..Len(words) : words[i].d > 0}

LastDotWord(words) ==
    CHOOSE i \in DotWords(words) : \A j \in DotWords(words) : j <= i

\* " ".join(words).rfind('.'): -1 when there is none
RFindDot(words) ==
    IF DotWords(words) = {} THEN 0 - 1
    ELSE LET i == LastDotWord(words)
         IN  CharStart(words, i) + words[i].d - 1

\* the word cut right after its last '.'
CutWord(w) == [n |-> w.d, d |-> w.d, c |-> w.c, has |-> w.hc, hc |-> w.hc]

\* " ".join(words)[:RFindDot(words) + 1], split again
CutAtLastDot(words) ==
    IF DotWords(words) = {} THEN << >>
    ELSE LET i == LastDotWord(words)
         IN  Append(SubSeq(words, 1, i - 1), CutWord(words[i]))

----------------------------------------------------------------------------
(* Filler sentences *)

\* fixed: _get_theme_expansions, with story_type = "adventure"
get_theme_expansions ==
    << << P(3), X(9, 0, 0, {"adventure"}), P(9), P(4), P(3), X(11, 11, 1, {}) >>,
       << P(3), P(9), P(4), P(4), P(9), P(4), P(4), X(5, 5, 1, {}) >>,
       << P(7), P(3), P(6), P(8), P(2), P(5), X(5, 5, 1, {}) >> >>

\* improved: the pool the padding loop draws from without replacement
extensions_improved ==
    << << P(3), X(9, 0, 0, {"adventure"}), P(6), P(8), P(2), P(3), P(7), P(5),
          P(3), P(10), P(2), P(4), P(8), X(7, 7, 1, {}) >>,
       << P(7), P(3), P(6), P(8), P(2), P(9), P(4), P(9), X(10, 10, 1, {}) >>,
       << P(3), X(5, 0, 0, {"story"}), P(6), P(10), P(3), P(5), P(9), P(6), P(2),
          P(6), P(4), X(8, 8, 1, {}) >>,
       << P(5), P(6), P(6), P(5), X(10, 0, 0, {"be"}), P(4), P(7), P(4), P(3), P(6), P(2),
          P(4),
          P(5), X(9, 9, 1, {}) >> >>

\* real: the pool the padding loop draws from, with replacement
extensions_real ==
    << << P(3), X(9, 0, 0, {"adventure"}), P(9), P(4), P(3), X(12, 12, 1, {}) >>,
       << P(7), P(6), P(3), P(7), P(5), P(3), X(4, 4, 1, {}) >>,
       << P(4), P(4), P(7), P(3), P(13), P(3), X(7, 7, 1, {}) >> >>

----------------------------------------------------------------------------
(* The length adjusters.  random.choice is a nondeterministic pick, so an  *)
(* adjuster yields the set of texts it can return.                         *)

\* a loop that appends two filler sentences per round
RECURSIVE PadBasicTwice(_, _, _)
PadBasicTwice(words, target, expansions) ==
    IF Len(words) < target /\ expansions # << >>
    THEN UNION {PadBasicTwice(words \o e \o e, target, expansions) :
                    e \in Range(expansions)}
    ELSE {words}

\* fixed: the while loop of _adjust_story_length_basic
RECURSIVE PadBasic(_, _, _)
PadBasic(words, target, expansions) ==
    IF Len(words) < target /\ expansions # << >>
    THEN UNION {PadBasic(words \o e, target, expansions) : e \in Range(expansions)}
    ELSE {words}

\* fixed: HybridStoryAgent._adjust_story_length_basic
adjust_story_length_basic(words, target) ==
    IF target > Len(words) THEN PadBasic(words, target, get_theme_expansions)
    ELSE IF target < Len(words) THEN {SliceTo(words, target)}
    ELSE {words}

\* a sequence without its i-th element (list.remove of a pool of distinct sentences)
RemoveAt(s, i) == SubSeq(s, 1, i - 1) \o SubSeq(s, i + 1, Len(s))

\* improved: the while loop of _adjust_length
RECURSIVE PadNoRepeat(_, _, _)
PadNoRepeat(words, target, pool) ==
    IF Len(words) < target /\ pool # << >>
    THEN UNION {PadNoRepeat(words \o pool[i], target, RemoveAt(pool, i)) :
                    i \in 1..Len(pool)}
    ELSE {words}

\* improved: StoryGenerator._adjust_length
adjust_length_improved(words, target) ==
    IF Len(words) > target
    THEN LET truncated == SliceTo(words, target)
             last_period == RFindDot(truncated)
         IN  IF 5 * last_period > 4 * target
             THEN {CutAtLastDot(truncated)}
             ELSE {truncated}
    ELSE IF 5 * Len(words) < 4 * target
    THEN {SliceTo(w, target) : w \in PadNoRepeat(words, target, extensions_improved)}
    ELSE {words}

\* real: the while loop of _adjust_length
RECURSIVE PadRepeat(_, _, _)
PadRepeat(words, target, pool) ==
    IF Len(words) < target
    THEN UNION {PadRepeat(words \o e, target, pool) : e \in Range(pool)}
    ELSE {words}

\* real: StoryGenerator._adjust_length
adjust_length_real(words, target) ==
    IF Len(words) > target THEN {SliceTo(words, target)}
    ELSE IF Len(words) < target
    THEN {SliceTo(w, target) : w \in PadRepeat(words, target, extensions_real)}
    ELSE {words}

\* the adjuster of the running server
AdjustLength(v, words, target) ==
    CASE v = "fixed" -> adjust_story_length_basic(words, target)
      [] v = "improved" -> adjust_length_improved(words, target)
      [] OTHER -> adjust_length_real(words, target)

----------------------------------------------------------------------------
(* Morals.  A moral is a string; lower(), title() and split() are tables   *)
(* over the morals the model draws from.                                   *)

Morals ==
    {"honesty", "Honesty", "kindness", "courage", "friendship", "patience", "be kind", ""}

Lower(m) ==
    CASE m = "honesty" -> "honesty"
      [] m = "Honesty" -> "honesty"
      [] m = "kindness" -> "kindness"
      [] m = "courage" -> "courage"
      [] m = "friendship" -> "friendship"
      [] m = "patience" -> "patience"
      [] m = "be kind" -> "be kind"
      [] OTHER -> ""

TitleCase(m) ==
    CASE m = "honesty" -> "Honesty"
      [] m = "Honesty" -> "Honesty"
      [] m = "kindness" -> "Kindness"
      [] m = "courage" -> "Courage"
      [] m = "friendship" -> "Friendship"
      [] m = "patience" -> "Patience"
      [] m = "be kind" -> "Be Kind"
      [] OTHER -> ""

LowerSplit(m) ==
    CASE m = "honesty" -> << "honesty" >>
      [] m = "Honesty" -> << "honesty" >>
      [] m = "kindness" -> << "kindness" >>
      [] m = "courage" -> << "courage" >>
      [] m = "friendship" -> << "friendship" >>
      [] m = "patience" -> << "patience" >>
      [] m = "be kind" -> << "be", "kind" >>
      [] OTHER -> <<  >>

MoralText(m) ==
    CASE m = "honesty" -> << X(7, 0, 0, {"honesty"}) >>
      [] m = "Honesty" -> << X(7, 0, 0, {"honesty"}) >>
      [] m = "kindness" -> << X(8, 0, 0, {"kind", "kindness"}) >>
      [] m = "courage" -> << X(7, 0, 0, {"courage"}) >>
      [] m = "friendship" -> << X(10, 0, 0, {"friendship"}) >>
      [] m = "patience" -> << X(8, 0, 0, {"patience"}) >>
      [] m = "be kind" -> << X(2, 0, 0, {"be"}), X(4, 0, 0, {"kind"}) >>
      [] OTHER -> << >>

----------------------------------------------------------------------------
(* Templates and the generic story *)

\* fixed: EnhancedAdventureAgent.templates; real: StoryGenerator.templates
TemplateKeys == {"honesty", "kindness", "courage"}

TemplateTitle(key) ==
    CASE key = "honesty" -> << "The Truthful Treasure Hunter" >>
      [] key = "kindness" -> << "The Kind Knight's Quest" >>
      [] key = "courage" -> << "The Brave Little Explorer" >>

\* fixed, real: the templates' stories (the two files hold the same three)
TemplateStory(key) ==
    CASE key = "honesty" ->
        << P(4), P(5), P(2), P(3), P(3), P(7), P(2), X(9, 9, 1, {}), P(4), P(3), P(6), P(5), P(5),
           P(3), P(3), P(5), P(4), P(4), P(3), P(4), P(2), X(7, 7, 1, {}), P(3), P(4), P(5), P(2),
           P(4), P(3), P(5), P(3), P(5), P(3), X(10, 10, 1, {"adventure"}), P(9), P(4), P(10),
           P(4), X(7, 0, 0, {"honesty"}), P(4), P(5), X(10, 0, 0, {"friendship"}), P(3), P(8),
           P(8), P(2), X(4, 4, 1, {}) >>
      [] key = "kindness" ->
        << P(3), P(4), P(3), P(2), P(1), P(5), P(2), P(4), P(3), X(8, 8, 1, {}), P(5), P(3), P(4),
           P(4), P(3), P(1), P(4), P(6), P(3), P(3), X(7, 7, 1, {}), P(7), P(2), P(9), P(4), P(6),
           X(8, 0, 0, {"kind", "kindness"}), P(3), P(6), P(3), P(6), P(4), P(3), P(3), X(5, 5, 1, {}), P(3),
           P(8), P(6), X(6, 0, 0, {"be"}), P(6), P(6), P(3), P(6), P(4), P(3), P(7),
           X(9, 9, 1, {}) >>
      [] key = "courage" ->
        << P(3), P(3), P(6), P(2), P(3), P(4), P(7), P(3), P(5), P(7), P(6), P(8), P(4), P(3),
           P(5), X(5, 5, 1, {}), P(6), P(1), P(4), P(7), P(3), P(5), X(7, 0, 0, {"courage"}),
           P(3), P(8), P(4), P(3), X(6, 6, 1, {}), P(4), P(4), P(5), P(5), P(3), P(4),
           X(6, 0, 0, {"be"}), P(8), P(3), P(3), P(8), P(4), P(1), X(5, 5, 1, {}) >>

\* fixed: the f-string of _generate_fallback_story around its two {moral}s,
\* with story_type = "adventure"
FallbackHead ==
    << X(4, 0, 0, {"once"}), P(4), P(1), P(5), P(1), P(5), P(5), X(7, 0, 0, {"learned"}),
       P(3), P(10), P(2) >>

FallbackMiddle ==
    << P(6), P(2), P(7), X(10, 10, 1, {"adventure"}), P(7), P(10), P(3),
       X(11, 0, 0, {"friendship"}), P(4), P(10), P(4) >>

FallbackTail ==
    << P(5), P(5), P(7), X(11, 11, 1, {}) >>

\* fixed: the generic story of _generate_fallback_story, split
FallbackText(m) ==
    FallbackHead \o MoralText(m) \o FallbackMiddle \o MoralText(m) \o FallbackTail

\* fixed: f"The {moral.title()} {self.story_type.title()}"
GeneratedTitle(m) == << "The", TitleCase(m), "Adventure" >>

\* improved: the keys of StoryGenerator.templates
ImprovedTemplateKeys == {"honesty", "kindness", "courage", "friendship"}

ImprovedTemplateTitle(key) ==
    CASE key = "honesty" -> << "The Truthful Treasure Hunter" >>
      [] key = "kindness" -> << "The Kind Knight's Quest" >>
      [] key = "courage" -> << "The Brave Little Explorer" >>
      [] key = "friendship" -> << "The Magic of True Friendship" >>

\* improved: the templates' stories
ImprovedTemplateStory(key) ==
    CASE key = "honesty" ->
        << P(4), P(5), P(2), P(3), P(3), P(7), P(2), P(8), P(6), P(4), P(2), P(3), X(7, 7, 1, {}),
           P(4), P(3), X(4, 0, 0, {"be"}), P(6), P(4), P(5), P(5), P(3), P(8), P(5), P(4), P(3),
           P(8), P(4), P(4), P(7), P(2), P(3), P(3), P(4), P(3), P(8), P(4), X(7, 7, 1, {}), P(3),
           P(4), P(4), P(1), P(4), P(6), P(3), P(5), P(2), P(4), P(3), X(6, 6, 1, {}), P(5), P(1),
           P(8), P(3), P(1), P(5), P(2), P(2), P(13), P(7), P(3), X(4, 0, 0, {"said"}),
           X(9, 9, 1, {}), P(6), P(4), P(3), P(2), P(4), X(11, 11, 1, {}), P(4), P(2), P(6), P(3),
           P(2), P(10), P(3), X(6, 6, 1, {}), P(4), P(6), P(3), X(7, 7, 1, {}), P(9), P(4), P(8),
           P(3), P(7), P(5), P(7), P(3), P(7), P(6), P(8), P(3), P(3), X(7, 0, 0, {"be"}), P(3),
           P(3), P(3), X(5, 5, 1, {}), P(4), P(4), P(7), P(5), P(3), P(5), P(6), P(2), P(3), P(6),
           P(4), P(5), P(5), P(3), P(1), P(4), P(4), P(6), P(11), P(4), P(5), P(4), P(8), P(8),
           P(2), P(1), P(6), P(3), P(3), X(7, 6, 1, {}), P(4), X(8, 0, 0, {"realized"}), P(4),
           P(2), X(5, 0, 0, {"be"}), P(7), P(3), P(3), P(6), P(2), P(7),
           X(9, 0, 0, {"adventure"}), P(3), P(4), P(5), X(10, 0, 0, {"friendship"}), P(4),
           X(9, 9, 1, {}), P(4), P(4), P(3), P(3), P(4), P(3), P(4), P(4), P(4), P(5), P(6), P(4),
           P(4), P(5), P(3), X(6, 6, 1, {}) >>
      [] key = "kindness" ->
        << P(3), P(4), P(4), P(7), P(3), P(9), P(6), P(2), P(1), P(4), P(9), P(5), P(2), P(4),
           P(3), P(7), P(4), P(1), P(8), X(6, 6, 1, {}), P(3), P(5), P(6), P(3), P(4), P(4), P(4),
           P(4), P(1), P(5), P(6), P(5), P(8), P(3), P(7), P(7), P(4), P(8), P(4),
           X(6, 0, 0, {"be"}), X(7, 7, 1, {}), P(2), P(4), P(7), P(5), P(3), P(8), P(5), P(4),
           P(5), P(1), P(4), P(6), P(5), P(6), P(4), X(6, 0, 0, {"be"}), P(4), X(6, 6, 1, {}),
           P(7), P(2), P(7), P(5), P(4), P(7), P(2), X(12, 12, 1, {}), P(6), P(7),
           X(7, 0, 0, {"be"}), P(3), P(9), P(3), P(1), P(5), P(6), P(4), P(5), P(9), P(4), P(3),
           P(5), X(7, 7, 1, {}), P(4), P(4), P(3), P(5), P(4), P(2), P(3), P(4), P(2), P(2), P(8),
           P(3), P(6), X(7, 7, 1, {"be"}), P(4), P(7), P(5), P(4), X(4, 0, 0, {"be"}), P(6), P(2),
           P(3), P(4), P(2), P(5), P(3), P(4), P(3), P(1), X(4, 0, 0, {"kind"}), X(6, 6, 1, {}),
           P(6), P(6), P(6), X(7, 7, 1, {}), P(4), P(4), P(5), P(4), X(4, 0, 0, {"said"}),
           X(7, 7, 1, {}), P(4), P(6), P(2), P(5), P(6), P(5), P(5), P(4), P(6), P(3), P(8), P(6),
           P(4), P(3), P(4), P(4), P(2), P(3), X(5, 5, 1, {}), P(3), P(6), P(3), P(2), P(8), P(4),
           P(2), P(7), P(2), P(4), P(4), P(4), P(3), X(6, 6, 1, {}), P(9), P(4), P(4), P(2), P(8),
           P(5), P(9), P(3), P(8), P(3), P(5), P(3), P(7), P(4), X(6, 0, 0, {"be"}),
           X(7, 7, 1, {}), P(4), X(7, 0, 0, {"learned"}), P(4), X(8, 0, 0, {"kind", "kindness"}), P(3), P(4),
           P(5), P(7), P(3), P(5), P(5), P(4), P(2), P(4), P(2), X(4, 4, 1, {}) >>
      [] key = "courage" ->
        << P(3), P(5), P(2), P(1), P(5), P(7), P(2), P(3), P(4), P(2), P(3), P(10), P(10),
           X(6, 6, 1, {}), P(3), P(9), P(4), P(4), P(4), P(3), P(6), P(7), P(7), P(5), P(4), P(4),
           P(4), P(2), P(3), P(5), P(4), P(2), P(3), P(4), X(7, 7, 1, {}), P(3), P(3), P(6),
           X(4, 0, 0, {"be"}), P(6), P(2), P(3), P(5), X(7, 0, 0, {"be"}), P(2), P(3), P(5), P(7),
           P(3), P(9), P(4), P(5), P(7), P(6), P(3), P(7), P(4), P(5), X(7, 0, 0, {"be"}), P(3),
           X(6, 6, 1, {}), P(3), P(4), P(3), P(3), P(3), P(4), P(4), P(3), P(9), P(4), P(3), P(9),
           P(5), P(3), P(12), P(9), P(5), P(7), X(7, 7, 1, {}), P(2), P(4), P(2), P(5), P(3),
           P(10), P(6), P(1), P(4), P(6), P(3), P(8), P(4), P(3), P(6), P(4), P(1), P(7), P(3),
           P(1), X(7, 7, 1, {}), P(2), P(6), P(5), P(8), P(6), P(3), P(8), P(4), P(4), P(3), P(4),
           P(2), P(4), X(5, 5, 1, {}), P(3), P(4), P(4), P(4), P(8), P(3), P(10), P(4), P(3),
           P(7), P(6), P(4), P(4), P(4), P(8), P(7), P(10), P(3), P(4), P(7), P(7), P(3),
           X(7, 7, 1, {}), P(3), P(10), P(7), P(4), P(6), P(5), P(7), P(2), P(3),
           X(10, 10, 1, {}), P(4), P(3), P(7), P(3), P(8), P(5), P(3), P(7), P(5), P(5), P(4),
           P(6), P(4), P(1), P(5), X(9, 0, 0, {"be"}), X(6, 6, 1, {}), P(3), P(9), P(8), P(3),
           P(5), P(3), P(7), P(4), X(5, 5, 1, {}), P(3), P(7), P(6), P(4), P(4), P(2), P(4), P(8),
           P(4), P(5), X(9, 9, 1, {}), P(3), X(8, 0, 0, {"realized"}), P(4),
           X(7, 0, 0, {"courage"}), P(5), P(5), P(3), X(5, 0, 0, {"be"}), P(6), P(1), P(4), P(5),
           P(5), P(6), P(5), P(4), P(4), P(3), P(3), X(7, 7, 1, {}) >>
      [] OTHER ->
        << P(4), P(3), X(3, 0, 0, {"be"}), P(4), P(3), X(4, 0, 0, {"be"}), P(2), P(7), P(3), P(5),
           P(9), P(5), P(12), X(9, 9, 1, {}), P(3), P(5), P(9), P(4), P(10), P(1), P(10), P(4),
           P(6), X(6, 0, 0, {"be"}), P(3), P(3), P(7), P(4), P(3), P(2), P(1), P(7), P(6), P(5),
           P(7), P(5), P(4), P(3), P(11), P(7), P(8), P(2), P(3), X(4, 4, 1, {}), P(4), P(8),
           P(2), P(4), P(2), P(5), P(6), P(7), X(6, 6, 1, {}), P(3), P(4), P(6), P(6), P(3), P(2),
           P(4), P(2), P(1), P(9), P(5), P(4), P(7), P(4), X(12, 12, 1, {}), P(4), P(3), P(2),
           P(4), P(7), P(4), P(5), P(2), P(3), P(7), P(4), P(5), X(6, 6, 1, {}),
           X(3, 0, 0, {"be"}), P(3), P(2), X(5, 5, 1, {}), P(5), P(3), P(2), P(7), P(4), P(5),
           P(4), P(2), P(2), P(5), P(8), P(5), P(1), P(4), P(2), P(3), P(3), P(6), P(3),
           X(3, 0, 0, {"be"}), P(2), P(5), P(7), P(6), P(1), P(3), P(5), P(5), P(5),
           X(11, 11, 1, {"friendship"}), P(9), P(7), P(9), P(4), P(6), P(4), P(4), P(5), P(6),
           P(4), P(4), P(7), P(6), P(3), P(4), P(7), P(11), P(3), P(7), P(3), P(4), P(7),
           X(8, 8, 1, {}), P(4), X(8, 0, 0, {"realized"}), P(4), P(4),
           X(10, 0, 0, {"friendship"}), P(5), P(5), X(5, 0, 0, {"be"}), P(2), P(3), P(4), P(6),
           P(3), P(5), P(6), P(3), P(4), P(5), P(2), P(6), P(5), P(3), X(4, 4, 1, {}), P(4), P(5),
           P(8), P(6), P(7), P(3), P(7), P(4), P(5), P(6), P(6), X(7, 7, 1, {}), P(5),
           X(10, 0, 0, {"friendship"}), P(4), P(4), P(8), X(7, 0, 0, {"be"}), P(4),
           X(7, 0, 0, {"learned"}), P(4), P(4), P(7), P(6), P(4), P(4), P(2), P(4),
           X(10, 10, 1, {}) >>

\* a word followed by '.': "{moral}." is one word of split(), '.' alone
\* when the moral is empty
WithDot(words) ==
    IF words = << >> THEN << X(1, 1, 1, {}) >>
    ELSE [words EXCEPT ![Len(words)] =
             XC(@.n + 1, @.n + 1, @.c + 1, @.has, {})]

\* a word followed by ','
WithComma(words) ==
    IF words = << >> THEN << P(1) >>
    ELSE [words EXCEPT ![Len(words)] = XC(@.n + 1, @.d, @.c, @.has, @.hc)]

\* improved: the generic story of StoryGenerator.generate_story, split
ImprovedGeneric(m) ==
    LET before_first ==
            << X(4, 0, 0, {"once"}), P(4), P(1), P(5), P(2), P(1), P(4), P(3), P(2), P(3), P(5), P(5),
               P(5), P(1), P(5), P(6), P(3), P(3), P(5), P(2), P(5), P(9), P(4), P(9), P(5) >>
        before_second ==
            << P(7), P(1), P(6), P(2), P(8), X(10, 0, 0, {"adventure"}), P(3), P(7), P(3), P(8), P(4),
               P(10), P(4) >>
        before_third ==
            << P(2), P(3), P(2), P(3), P(4), P(8), P(6), P(2), X(5, 5, 1, {}), P(4),
               X(7, 0, 0, {"learned"}), P(4), P(4), P(2), P(8) >>
        rest ==
            << P(2), P(3), P(4), P(4), P(6), P(3), P(4), P(4), P(9), P(7), P(3), X(9, 9, 1, {}), P(3),
               P(4), P(4), P(3), P(8), P(4), P(7), P(4), P(6), P(2), P(5), P(6), P(7), P(2), P(4),
               P(8), P(4), X(4, 4, 1, {}), P(3), X(4, 4, 1, {}) >>
    IN  before_first \o WithDot(MoralText(m)) \o before_second \o MoralText(m)
            \o before_third \o WithComma(MoralText(m)) \o rest

\* real: the generic story of StoryGenerator.generate_story, split
RealGeneric(m) ==
    LET before_first ==
            << X(4, 0, 0, {"once"}), P(4), P(1), P(5), P(5), P(3), P(1), P(5), P(3),
               X(7, 0, 0, {"learned"}), P(5) >>
        before_second ==
            << P(7), P(2), P(7), X(10, 10, 1, {"adventure"}), P(4), P(10), P(4) >>
        rest ==
            << P(2), P(3), P(2), P(3), P(4), P(9), P(6), P(2), X(5, 5, 1, {}) >>
    IN  before_first \o MoralText(m) \o before_second \o MoralText(m) \o rest

----------------------------------------------------------------------------
(* Stories.  A score is the exact rational num / den of the float the code *)
(* computes; `slot` is the place of the producing agent in self.agents     *)
(* (bookkeeping: every registered agent has the same agent_id).            *)

NoScore == [num |-> 0, den |-> 1]

Story(title, content, moral, length, agent_id, method, slot) ==
    [title |-> title, content |-> content, moral |-> moral, length |-> length,
     score |-> NoScore, agent_id |-> agent_id, generation_method |-> method,
     slot |-> slot]

\* needle in content.lower()
Contains(content, needle) == \E i \in 1..Len(content) : needle \in content[i].has

\* content.count('.')
RECURSIVE CountDots(_)
CountDots(content) ==
    IF content = << >> THEN 0 ELSE content[1].c + CountDots(Tail(content))

----------------------------------------------------------------------------
(* fixed: StoryRanker.score_story.  With max_diff = max(target, 50) and    *)
(* k = max(len(moral_words), 1) the score is                               *)
(*   0.35 * L / max_diff + 0.25 * M / k + 0.25 * Q / 10 + 0.15 * B / 10    *)
(* and is kept as the fraction num / (200 * max_diff * k).                 *)

\* the length term without its max(0, ...)
LengthScoreNumUnclamped(length, target) ==
    Max(target, 50) - Abs(length - target)

LengthScoreNum(length, target) ==
    Max(0, Max(target, 50) - Abs(length - target))

MoralMatches(content, moral) ==
    Cardinality({i \in 1..Len(LowerSplit(moral)) :
                    Contains(content, LowerSplit(moral)[i])})

QualityTenths(content) ==
    (IF \E w \in {"once", "story", "adventure"} : Contains(content, w)
     THEN 3 ELSE 0)
    + (IF \E w \in {"realized", "understood", "learned"} : Contains(content, w)
       THEN 3 ELSE 0)
    + (IF Contains(content, "QUOTE") \/ Contains(content, "said") THEN 2 ELSE 0)
    + (IF CountDots(content) >= 3 THEN 2 ELSE 0)

MethodBonusTenths(method) ==
    CASE method = "claude" -> 9
      [] method = "hybrid" -> 8
      [] method = "template" -> 6
      [] OTHER -> 5

score_story(story, target, moral) ==
    LET max_diff == Max(target, 50)
        k == Max(Len(LowerSplit(moral)), 1)
        den == 200 * max_diff * k
        num == 70 * LengthScoreNum(story.length, target) * k
               + 50 * Min(k, MoralMatches(story.content, moral)) * max_diff
               + 5 * Min(QualityTenths(story.content), 10) * max_diff * k
               + 3 * MethodBonusTenths(story.generation_method) * max_diff * k
    IN  [num |-> Min(num, den), den |-> den]

\* a.score < b.score
ScoreLess(a, b) ==
    IF a.den = b.den THEN a.num < b.num ELSE a.num * b.den < b.num * a.den

----------------------------------------------------------------------------
(* fixed: the remote generator.  A call ends in one of: the client raised, *)
(* the response held no content block, or a text came back (stripped).     *)

\* texts the remote service may answer with: nothing but blanks, a short
\* capitalised line, a longer story whose first line has 50 characters or more
BlankText ==
    [words |-> << >>, first_line |-> << "" >>, short |-> TRUE, upper |-> FALSE]

ClaudeTexts ==
    { BlankText,
      [words |-> << P(3), X(7, 7, 1, {}), P(3), X(7, 7, 1, {}) >>,
       first_line |-> << "Mia shared. She smiled." >>, short |-> TRUE, upper |-> TRUE],
      [words |-> << X(4, 0, 0, {"once"}), P(5), P(3), P(1), P(5), P(3), P(5), P(3),
                    P(3), P(5), X(7, 7, 1, {}), P(2), X(7, 0, 0, {"learned"}), P(2),
                    X(6, 6, 1, {}), X(3, 0, 0, {"QUOTE", "be"}),
                    X(6, 0, 0, {"QUOTE", "kind"}), P(2), X(5, 5, 1, {"said"}) >>,
       first_line |-> << "Once there was a small fox named Pip ... he said." >>,
       short |-> FALSE, upper |-> TRUE] }

RemoteOutcomes ==
    {[kind |-> "raise", text |-> BlankText], [kind |-> "no_content", text |-> BlankText]}
    \cup {[kind |-> "text", text |-> t] : t \in ClaudeTexts}

\* the same method without its try/except: the client's exception leaves it
claude_generate_story_unguarded(outcome) ==
    CASE outcome.kind = "raise" -> [raised |-> TRUE, text |-> << >>]
      [] outcome.kind = "no_content" -> [raised |-> FALSE, text |-> << >>]
      [] OTHER -> [raised |-> FALSE, text |-> << outcome.text >>]

\* ClaudeStoryGenerator.generate_story once the request is out: what the caller
\* gets.  raised: an exception leaves the method; text: << >> is None.
claude_generate_story(outcome) ==
    CASE outcome.kind = "raise" -> [raised |-> FALSE, text |-> << >>]
      [] outcome.kind = "no_content" -> [raised |-> FALSE, text |-> << >>]
      [] OTHER -> [raised |-> FALSE, text |-> << outcome.text >>]

\* the generate_story calls made on one ClaudeStoryGenerator
Invocations == 1..NumInvocations

RemoteIdle ==
    /\ g_pc = [k \in Invocations |-> "idle"]
    /\ g_out = [k \in Invocations |-> 0]
    /\ g_ret = [k \in Invocations |-> << >>]

\* how a call ended: what it returned or raised, and what happened to it
Ended(ret, how) == [raised |-> ret.raised, text |-> ret.text, how |-> how]

\* a generator that sends the request again when the client raised
remote_return_retry(out, outcome) ==
    IF outcome.kind = "raise" /\ out < 2
    THEN [pc |-> "waiting", out |-> out + 1, ret |-> << >>]
    ELSE [pc |-> "done", out |-> out,
          ret |-> << Ended(claude_generate_story(outcome), outcome.kind) >>]

\* generate_story from the return of messages.create to its own return;
\* out is the number of requests the call has sent
remote_return(out, outcome) ==
    [pc |-> "done", out |-> out,
     ret |-> << Ended(claude_generate_story(outcome), outcome.kind) >>]

\* ClaudeStoryGenerator.generate_story is called: it returns None at once
\* when the generator is not available, else sends its request
GenerateCall(k) ==
    /\ g_pc[k] = "idle"
    /\ \A j \in Invocations : j < k => g_pc[j] # "idle"
    /\ IF ~claude_available
       THEN /\ g_pc' = [g_pc EXCEPT ![k] = "done"]
            /\ g_ret' = [g_ret EXCEPT ![k] =
                            << Ended([raised |-> FALSE, text |-> << >>], "unavailable") >>]
            /\ UNCHANGED g_out
       ELSE /\ g_pc' = [g_pc EXCEPT ![k] = "waiting"]
            /\ g_out' = [g_out EXCEPT ![k] = @ + 1]
            /\ UNCHANGED g_ret
    /\ UNCHANGED << variant, claude_available, adj_in, adj_out, rk_in, rk_out,
                    p_pc, p_req, p_task, p_stories, p_result, p_raised, p_order,
                    voice_engines, voice_profiles, calls, now, files,
                    list_vars, loop_vars, req_vars >>

\* messages.create returned or raised in its thread, and generate_story
\* runs to its return
GenerateReturn(k, outcome) ==
    /\ g_pc[k] = "waiting"
    /\ LET next == remote_return(g_out[k], outcome)
       IN  /\ g_pc' = [g_pc EXCEPT ![k] = next.pc]
           /\ g_out' = [g_out EXCEPT ![k] = next.out]
           /\ g_ret' = [g_ret EXCEPT ![k] = next.ret]
    /\ UNCHANGED << variant, claude_available, adj_in, adj_out, rk_in, rk_out,
                    p_pc, p_req, p_task, p_stories, p_result, p_raised, p_order,
                    voice_engines, voice_profiles, calls, now, files,
                    list_vars, loop_vars, req_vars >>

\* Python truth of the Optional[str] the generator returned
Truthy(ret) == ret.text # << >> /\ ret.text[1].words # << >>

----------------------------------------------------------------------------
(* fixed: HybridStoryAgent *)

AgentId == "adventure_agent"

\* _generate_from_template
generate_from_template(moral, target, slot) ==
    {Story(TemplateTitle(Lower(moral)), content, moral, WordCount(content),
           AgentId, "template", slot) :
        content \in adjust_story_length_basic(TemplateStory(Lower(moral)), target)}

\* _generate_fallback_story
generate_fallback_story(moral, target, slot) ==
    {Story(GeneratedTitle(moral), content, moral, WordCount(content),
           AgentId, "template", slot) :
        content \in adjust_story_length_basic(FallbackText(moral), target)}

\* _extract_or_generate_title
extract_or_generate_title(text, moral) ==
    IF text.short /\ text.upper THEN text.first_line ELSE GeneratedTitle(moral)

\* an enhancement that replaces the content and leaves the length as it was
EnhancedStoryStaleLength(base, ret) ==
    IF Truthy(ret)
    THEN [base EXCEPT !.content = ret.text[1].words,
                      !.generation_method = "hybrid"]
    ELSE base

\* generate_story, the template branch after the remote call returned
EnhancedStory(base, ret) ==
    IF Truthy(ret)
    THEN [base EXCEPT !.content = ret.text[1].words,
                      !.length = WordCount(ret.text[1].words),
                      !.generation_method = "hybrid"]
    ELSE base

\* a no-template branch that returns an empty story when the remote call
\* returned nothing
ClaudeStoriesNoFallback(ret, moral, target, slot) ==
    IF Truthy(ret)
    THEN {Story(extract_or_generate_title(ret.text[1], moral), ret.text[1].words,
                moral, WordCount(ret.text[1].words), AgentId, "claude", slot)}
    ELSE {Story(GeneratedTitle(moral), << >>, moral, 0, AgentId, "claude", slot)}

\* generate_story, the no-template branch after the remote call returned
ClaudeStories(ret, moral, target, slot) ==
    IF Truthy(ret)
    THEN {Story(extract_or_generate_title(ret.text[1], moral), ret.text[1].words,
                moral, WordCount(ret.text[1].words), AgentId, "claude", slot)}
    ELSE generate_fallback_story(moral, target, slot)

----------------------------------------------------------------------------
(* improved, real: StoryGenerator *)

StoryTemplateKeys(v) == IF v = "improved" THEN ImprovedTemplateKeys ELSE TemplateKeys

StoryTemplateTitle(v, key) ==
    IF v = "improved" THEN ImprovedTemplateTitle(key) ELSE TemplateTitle(key)

StoryTemplateStory(v, key) ==
    IF v = "improved" THEN ImprovedTemplateStory(key) ELSE TemplateStory(key)

GenericText(v, moral) ==
    IF v = "improved" THEN ImprovedGeneric(moral) ELSE RealGeneric(moral)

\* the dict StoryGenerator.generate_story returns
StoryResult(title, content, moral, method, available) ==
    [title |-> title, content |-> content, moral |-> moral,
     length |-> WordCount(content), method |-> method,
     claude_available |-> available]

\* StoryGenerator.generate_story; ret is what the remote generator returned
\* and is read only when the generator is available
StoryGenerator_generate_story(v, moral, length, available, ret) ==
    IF available /\ Truthy(ret)
    THEN {StoryResult(<< "A Story About", TitleCase(moral) >>, ret.text[1].words,
                      moral, "claude", TRUE)}
    ELSE IF Lower(moral) \in StoryTemplateKeys(v)
    THEN {StoryResult(StoryTemplateTitle(v, Lower(moral)), content, moral,
                      "template", available) :
             content \in AdjustLength(v, StoryTemplateStory(v, Lower(moral)), length)}
    ELSE {StoryResult(GeneratedTitle(moral), content, moral, "generic", available) :
             content \in AdjustLength(v, GenericText(v, moral), length)}

----------------------------------------------------------------------------
(* fixed: EnhancedStorytellerPipeline.generate_story *)

\* a sort that puts a later story before the earlier ones of equal score
RECURSIVE InsertByScoreLastWins(_, _)
InsertByScoreLastWins(sorted, s) ==
    IF sorted = << >> THEN << s >>
    ELSE IF ~ScoreLess(s.score, sorted[Len(sorted)].score)
    THEN Append(InsertByScoreLastWins(SubSeq(sorted, 1, Len(sorted) - 1), s),
                sorted[Len(sorted)])
    ELSE Append(sorted, s)

\* list.sort(key=score, reverse=True): stable, so equal scores keep their order
RECURSIVE InsertByScore(_, _)
InsertByScore(sorted, s) ==
    IF sorted = << >> THEN << s >>
    ELSE IF ScoreLess(sorted[Len(sorted)].score, s.score)
    THEN Append(InsertByScore(SubSeq(sorted, 1, Len(sorted) - 1), s),
                sorted[Len(sorted)])
    ELSE Append(sorted, s)

RECURSIVE SortByScore(_)
SortByScore(stories) ==
    IF stories = << >> THEN << >>
    ELSE InsertByScore(SortByScore(SubSeq(stories, 1, Len(stories) - 1)),
                       stories[Len(stories)])

\* a returned dict that reports the score the story had before it was scored
PipelineResultUnscored(winner, available) ==
    [title |-> winner.title, content |-> winner.content, moral |-> winner.moral,
     length |-> winner.length, agent_id |-> winner.agent_id,
     score |-> NoScore, generation_method |-> winner.generation_method,
     claude_available |-> available]

\* the dict the pipeline returns
PipelineResult(winner, available) ==
    [title |-> winner.title, content |-> winner.content, moral |-> winner.moral,
     length |-> winner.length, agent_id |-> winner.agent_id,
     score |-> winner.score, generation_method |-> winner.generation_method,
     claude_available |-> available]

----------------------------------------------------------------------------
(* Voice narration: VoiceNarrationEngine of the three servers.  The text   *)
(* to narrate is handed to the engine and read by nothing else, so a call  *)
(* is modelled without it; every caller passes save_file = True.           *)

AllEngines == {"pyttsx3", "gtts", "edge_tts"}

Prof(id, engine) == [id |-> id, engine |-> engine]

\* the profiles _create_voice_profiles can create, in the order it inserts them
AllProfiles(v) ==
    CASE v = "fixed" ->
           << Prof("default_narrator", "pyttsx3"), Prof("parent_voice", "pyttsx3"),
              Prof("child_voice", "pyttsx3"), Prof("wise_elder", "pyttsx3"),
              Prof("gtts_storyteller", "gtts"), Prof("gtts_friendly", "gtts"),
              Prof("edge_jenny", "edge_tts"), Prof("edge_guy", "edge_tts"),
              Prof("edge_aria", "edge_tts"), Prof("edge_davis", "edge_tts") >>
      [] v = "improved" ->
           << Prof("narrator", "pyttsx3"), Prof("parent", "pyttsx3"),
              Prof("child", "pyttsx3"),
              Prof("gtts_narrator", "gtts"), Prof("gtts_friendly", "gtts"),
              Prof("edge_narrator", "edge_tts"), Prof("edge_child", "edge_tts") >>
      [] OTHER ->
           << Prof("narrator", "pyttsx3"), Prof("parent", "pyttsx3"),
              Prof("child", "pyttsx3"),
              Prof("gtts_narrator", "gtts"), Prof("gtts_friendly", "gtts") >>

\* the engines narrate_story has a synthesis routine for
Backends(v) == IF v = "real" THEN {"pyttsx3", "gtts"} ELSE AllEngines

\* _create_voice_profiles, reading the voice_engines of the moment
create_voice_profiles(v, engines) ==
    SelectSeq(AllProfiles(v), LAMBDA p : engines[p.engine])

\* _init_engines / _init_system_voices / _init_pyttsx3: a failing
\* pyttsx3.init() marks the engine unavailable
init_pyttsx3(engines, init_ok) ==
    [engines EXCEPT !["pyttsx3"] = @ /\ init_ok]

\* VoiceNarrationEngine.__init__: fixed initialises the engines and then
\* creates the profiles; improved and real create the profiles first
engine_init(v, imports, init_ok) ==
    [engines |-> init_pyttsx3(imports, init_ok),
     profiles |-> IF v = "fixed"
                  THEN create_voice_profiles(v, init_pyttsx3(imports, init_ok))
                  ELSE create_voice_profiles(v, imports)]

ProfileIds(profiles) == {profiles[i].id : i \in 1..Len(profiles)}

\* self.voice_profiles[voice_id]
ProfileOf(profiles, voice_id) ==
    profiles[CHOOSE i \in 1..Len(profiles) : profiles[i].id = voice_id]

\* the fallback list without its filter on voice_engines
all_profiles(profiles, engines) == profiles

\* [v for v in self.voice_profiles.values() if voice_engines.get(v.engine, False)]
working_profiles(profiles, engines) ==
    SelectSeq(profiles, LAMBDA p : engines[p.engine])

\* one entry of the list get_available_voices builds
VoiceEntry(p, engines) ==
    [id |-> p.id, engine |-> p.engine, available |-> engines[p.engine]]

\* the entries of self.voice_profiles.values(), grouped by engine
voices_by_engine(profiles, engines) ==
    [e \in {profiles[i].engine : i \in 1..Len(profiles)} |->
        LET mine == SelectSeq(profiles, LAMBDA p : p.engine = e)
        IN  [k \in 1..Len(mine) |-> VoiceEntry(mine[k], engines)]]

\* get_available_voices; improved adds the engine status and the counts
get_available_voices(v, profiles, engines) ==
    IF v = "improved"
    THEN [voices_by_engine |-> voices_by_engine(profiles, engines),
          engine_status |-> engines,
          total_profiles |-> Len(profiles),
          working_engines |-> Cardinality({e \in DOMAIN engines : engines[e]})]
    ELSE [voices_by_engine |-> voices_by_engine(profiles, engines)]

\* what narrate_story returns or does next
Failure(error) == [success |-> FALSE, error |-> error, audio_file |-> << >>]

Success(name) == [success |-> TRUE, error |-> "", audio_file |-> << name >>]

Refuse(profile, error) ==
    [kind |-> "error", profile |-> profile, result |-> Failure(error)]

Synthesize(p) ==
    [kind |-> "synth", profile |-> << p >>, result |-> Failure("")]

\* fixed: narrate_story from the engine check to the dispatch
dispatch_fixed(p, engines) ==
    IF ~engines[p.engine]
    THEN Refuse(<< p >>, "Voice engine not available")
    ELSE IF p.engine \in {"pyttsx3", "gtts", "edge_tts"} THEN Synthesize(p)
    ELSE Refuse(<< p >>, "Unknown engine")

\* improved: the dispatch of narrate_story
dispatch_improved(p, engines) ==
    IF p.engine \in {"pyttsx3", "gtts", "edge_tts"} /\ engines[p.engine]
    THEN Synthesize(p)
    ELSE Refuse(<< p >>, "Engine not available")

\* real: the dispatch of narrate_story
dispatch_real(p, engines) ==
    IF p.engine \in {"pyttsx3", "gtts"} THEN Synthesize(p)
    ELSE Refuse(<< p >>, "Engine not supported")

dispatch(v, p, engines) ==
    CASE v = "fixed" -> dispatch_fixed(p, engines)
      [] v = "improved" -> dispatch_improved(p, engines)
      [] OTHER -> dispatch_real(p, engines)

\* the error of the call that finds no voice to fall back to
NoVoiceError(v) ==
    CASE v = "fixed" -> "No voice engines available"
      [] v = "improved" -> "No working voice engines available"
      [] OTHER -> "No voices available"

\* narrate_story up to the synthesis routine
narrate_story(v, profiles, engines, voice_id) ==
    IF v = "improved" /\ profiles = << >>
    THEN Refuse(<< >>, "No voice profiles available")
    ELSE IF voice_id \notin ProfileIds(profiles)
    THEN IF working_profiles(profiles, engines) = << >>
         THEN Refuse(<< >>, NoVoiceError(v))
         ELSE dispatch(v, working_profiles(profiles, engines)[1], engines)
    ELSE dispatch(v, ProfileOf(profiles, voice_id), engines)

\* the audio file's name: fixed names it after the profile, improved and
\* real after the second the clock shows
audio_file_name(v, p, clock) ==
    [id |-> IF v = "fixed" THEN p.id ELSE "",
     ts |-> IF v = "fixed" THEN 0 - 1 ELSE clock,
     ext |-> IF p.engine = "pyttsx3" THEN "wav" ELSE "mp3"]

\* how a run of the engine can end: it raises, it returns having written no
\* file, an empty file, or a file that holds audio
SynthOutcomes == {"raise", "nofile", "empty", "ok"}

\* temp_dir after the engine ran
WriteFile(fs, name, outcome, c) ==
    IF outcome \in {"empty", "ok"}
    THEN {f \in fs : f.name # name}
         \cup {[name |-> name, size |-> IF outcome = "ok" THEN 1 ELSE 0, by |-> c]}
    ELSE fs

\* os.path.exists
Exists(fs, name) == \E f \in fs : f.name = name

\* os.path.getsize(...) > 0
NonEmpty(fs, name) == \E f \in fs : f.name = name /\ f.size > 0

\* _narrate_pyttsx3; fs is temp_dir after the engine ran
narrate_pyttsx3(v, outcome, name, fs) ==
    LET audio_file ==
            IF outcome = "raise" THEN << >>
            ELSE IF v = "fixed" THEN << name >>
            ELSE IF v = "improved"
            THEN (IF Exists(fs, name) /\ NonEmpty(fs, name) THEN << name >> ELSE << >>)
            ELSE (IF Exists(fs, name) THEN << name >> ELSE << >>)
    IN  CASE v = "fixed" ->
               IF audio_file # << >> /\ Exists(fs, name) THEN Success(name)
               ELSE Failure("Failed to generate pyttsx3 audio")
          [] v = "improved" ->
               IF audio_file # << >> /\ Exists(fs, name) THEN Success(name)
               ELSE Failure("Failed to generate audio file with pyttsx3")
          [] OTHER ->
               IF audio_file # << >> THEN Success(name)
               ELSE Failure("Failed to generate audio")

\* _narrate_gtts
narrate_gtts(v, outcome, name, fs) ==
    IF outcome = "raise" THEN Failure("str(e)")
    ELSE IF v = "improved"
    THEN (IF Exists(fs, name) THEN Success(name)
          ELSE Failure("Failed to create gTTS audio file"))
    ELSE Success(name)

\* _narrate_edge_tts (fixed, improved)
narrate_edge_tts(v, outcome, name, fs) ==
    IF outcome = "raise" THEN Failure("str(e)")
    ELSE IF v = "improved"
    THEN (IF Exists(fs, name) THEN Success(name)
          ELSE Failure("Failed to create Edge TTS audio file"))
    ELSE Success(name)

\* the routine narrate_story dispatched to
narrate_backend(v, engine, outcome, name, fs) ==
    CASE engine = "pyttsx3" -> narrate_pyttsx3(v, outcome, name, fs)
      [] engine = "gtts" -> narrate_gtts(v, outcome, name, fs)
      [] OTHER -> narrate_edge_tts(v, outcome, name, fs)

\* a narrate_story call: where it is, its voice_id, the profile it resolved,
\* the engines whose routine it invoked, how the engine run ended, the file
\* name it used and the dict it returned
IdleCall ==
    [pc |-> "idle", voice_id |-> "", profile |-> << >>, attempts |-> << >>,
     outcome |-> "", file |-> << >>, result |-> << >>]

\* a call once narrate_story has run up to the engine's worker thread, or to
\* the return that refuses it
started_call(v, profiles, engines, voice_id) ==
    LET step == narrate_story(v, profiles, engines, voice_id)
    IN  IF step.kind = "synth"
        THEN [IdleCall EXCEPT !.pc = "synth", !.voice_id = voice_id,
                              !.profile = step.profile,
                              !.attempts = << step.profile[1].engine >>]
        ELSE [IdleCall EXCEPT !.pc = "done", !.voice_id = voice_id,
                              !.profile = step.profile,
                              !.result = << step.result >>]

\* a dispatcher that, when the routine failed, goes on to another engine
after_synthesis_retry(call, outcome, name, res) ==
    IF ~res.success /\ Len(call.attempts) < 2
    THEN [call EXCEPT !.attempts =
             Append(@, CHOOSE e \in AllEngines : e # call.attempts[1]),
                      !.outcome = outcome, !.file = << name >>]
    ELSE [call EXCEPT !.pc = "done", !.outcome = outcome, !.file = << name >>,
                      !.result = << res >>]

\* narrate_story: `return await self._narrate_...(...)`
after_synthesis(call, outcome, name, res) ==
    [call EXCEPT !.pc = "done", !.outcome = outcome, !.file = << name >>,
                 !.result = << res >>]

Calls == 1..NumSharing

\* the voice ids a caller passes: the first profile of each engine, and an
\* id no server knows
VoiceIds(v) ==
    {AllProfiles(v)[CHOOSE i \in 1..Len(AllProfiles(v)) :
                        /\ AllProfiles(v)[i].engine = e
                        /\ \A j \in 1..(i - 1) : AllProfiles(v)[j].engine # e].id :
        e \in Backends(v)}
    \cup {"no_such_voice"}

AllVoiceIds == UNION {VoiceIds(v) : v \in Variants}

NarrIdle ==
    /\ voice_engines = [e \in AllEngines |-> FALSE]
    /\ voice_profiles = << >>
    /\ calls = [c \in Calls |-> IdleCall]
    /\ now = 0
    /\ files = {}

narr_vars == << voice_engines, voice_profiles, calls, now, files >>

\* what a narration step leaves alone
narr_frame ==
    << variant, claude_available, adj_in, adj_out, rk_in, rk_out,
       p_pc, p_req, p_task, p_stories, p_result, p_raised, p_order,
       voice_engines, voice_profiles, list_vars, loop_vars, remote_vars, req_vars >>

\* narrate_story is called and runs up to the engine's worker thread
NarrateBegin(c, voice_id) ==
    /\ calls[c].pc = "idle"
    /\ voice_id \in VoiceIds(variant)
    /\ \A d \in Calls : d < c => calls[d].pc # "idle"
    /\ calls' = [calls EXCEPT ![c] =
                     started_call(variant, voice_profiles, voice_engines, voice_id)]
    /\ UNCHANGED << now, files, narr_frame >>

\* the engine ran; the routine looks at the file and narrate_story returns
SynthFinish(c, outcome) ==
    /\ calls[c].pc = "synth"
    /\ LET call == calls[c]
           engine == call.attempts[Len(call.attempts)]
           name == audio_file_name(variant, call.profile[1], now)
           fs == WriteFile(files, name, outcome, c)
       IN  /\ files' = fs
           /\ calls' = [calls EXCEPT ![c] =
                  after_synthesis(call, outcome, name,
                                  narrate_backend(variant, engine, outcome, name, fs))]
    /\ UNCHANGED << now, narr_frame >>

\* the list_voices tool: get_available_voices is called
ListVoices ==
    /\ listed = << >>
    /\ listed' = << get_available_voices(variant, voice_profiles, voice_engines) >>
    /\ UNCHANGED << variant, claude_available, adj_in, adj_out, rk_in, rk_out,
                    p_pc, p_req, p_task, p_stories, p_result, p_raised, p_order,
                    narr_vars, remote_vars, req_vars, loop_vars >>

\* a second passes; only improved and real read the clock
Tick ==
    /\ variant # "fixed"
    /\ now < MaxClock
    /\ now' = now + 1
    /\ UNCHANGED << calls, files, narr_frame >>

----------------------------------------------------------------------------
(* One run of the pipeline.  asyncio.gather starts the agents' coroutines  *)
(* in registration order; a coroutine runs to its first real suspension,   *)
(* the remote call handed to a worker thread, and the calls return in any  *)
(* order.  Ranking starts when gather has every result.                    *)

\* self.agents by place of registration.  The constructor registers one
\* EnhancedAdventureAgent; the list may hold several agents of that class.
Agents == 1..NumAgents

\* the story an agent starts from when no remote text replaces it
BaseStory(m) ==
    IF Lower(m) \in TemplateKeys THEN TemplateStory(Lower(m)) ELSE FallbackText(m)

\* target lengths of a request.  For a moral with a template: every length
\* from -1 to MaxTemplateDeficit words more than the template.  For the
\* others: the small ones, and from the length of the fallback text up to
\* MaxDeficit words more
PipeTargets(m) ==
    IF Lower(m) \in TemplateKeys
    THEN (0 - 1)..(Len(BaseStory(m)) + MaxTemplateDeficit)
    ELSE ((0 - 1)..MaxSmallTarget) \cup {Len(BaseStory(m)) + k : k \in 0..MaxDeficit}

AllPipeTargets == UNION {PipeTargets(m) : m \in Morals}

PipeIdle ==
    /\ p_pc = "idle"
    /\ p_req = [moral |-> "", target |-> 0]
    /\ p_task = [i \in Agents |-> "new"]
    /\ p_stories = [i \in Agents |-> << >>]
    /\ p_result = << >>
    /\ p_raised = FALSE
    /\ p_order = << >>

pipe_vars == << p_pc, p_req, p_task, p_stories, p_result, p_raised, p_order >>

\* what a pipeline step leaves alone
pipe_frame ==
    << variant, claude_available, adj_in, adj_out, rk_in, rk_out, narr_vars,
       list_vars, loop_vars, req_vars >>

\* EnhancedStorytellerPipeline.generate_story is called
PipelineStart(moral, target) ==
    /\ p_pc = "idle"
    /\ target \in PipeTargets(moral)
    /\ p_pc' = "gather"
    /\ p_req' = [moral |-> moral, target |-> target]
    /\ UNCHANGED << p_task, p_stories, p_result, p_raised, p_order, remote_vars,
                    pipe_frame >>

\* HybridStoryAgent.generate_story up to its return or its remote call;
\* the call agent i makes on the shared generator is the generator's call i
AgentRun(i) ==
    /\ p_pc = "gather"
    /\ p_task[i] = "new"
    /\ \A j \in Agents : j < i => p_task[j] # "new"
    /\ IF Lower(p_req.moral) \in TemplateKeys
       THEN \E base \in generate_from_template(p_req.moral, p_req.target, i) :
               /\ p_stories' = [p_stories EXCEPT ![i] = << base >>]
               /\ p_task' = [p_task EXCEPT ![i] =
                     IF claude_available /\ Abs(base.length - p_req.target) > 10
                     THEN "await_enhance" ELSE "done"]
       ELSE IF claude_available
       THEN /\ p_task' = [p_task EXCEPT ![i] = "await_claude"]
            /\ UNCHANGED p_stories
       ELSE \E s \in generate_fallback_story(p_req.moral, p_req.target, i) :
               /\ p_stories' = [p_stories EXCEPT ![i] = << s >>]
               /\ p_task' = [p_task EXCEPT ![i] = "done"]
    /\ p_order' = IF p_task'[i] = "done" THEN Append(p_order, i) ELSE p_order
    /\ g_out' = IF p_task'[i] = "done" THEN g_out ELSE [g_out EXCEPT ![i] = @ + 1]
    /\ UNCHANGED << p_pc, p_req, p_result, p_raised, g_pc, g_ret, pipe_frame >>

\* the remote call of agent i returns and generate_story runs to its return
AgentResume(i) ==
    /\ p_pc = "gather"
    /\ p_task[i] \in {"await_enhance", "await_claude"}
    /\ \E outcome \in RemoteOutcomes :
         LET ret == claude_generate_story(outcome)
         IN  /\ g_ret' = [g_ret EXCEPT ![i] = << Ended(ret, "returned") >>]
             /\ IF ret.raised
                THEN /\ p_raised' = TRUE
                     /\ p_pc' = "done"
                     /\ UNCHANGED << p_task, p_stories >>
                ELSE /\ \E s \in (IF p_task[i] = "await_enhance"
                                  THEN {EnhancedStory(p_stories[i][1], ret)}
                                  ELSE ClaudeStories(ret, p_req.moral, p_req.target, i)) :
                           p_stories' = [p_stories EXCEPT ![i] = << s >>]
                     /\ p_task' = [p_task EXCEPT ![i] = "done"]
                     /\ UNCHANGED << p_pc, p_raised >>
    /\ p_order' = IF p_task'[i] = "done" THEN Append(p_order, i) ELSE p_order
    /\ UNCHANGED << p_req, p_result, g_pc, g_out, pipe_frame >>

\* a gather that hands the stories over in the order the tasks finished
gather_as_completed(stories, order) ==
    [k \in Agents |-> stories[order[k]][1]]

\* asyncio.gather(*[agent.generate_story(...) for agent in self.agents]):
\* the stories in the order of self.agents, whatever order the tasks
\* finished in
gather(stories, order) ==
    [i \in Agents |-> stories[i][1]]

\* gather returned: score every story, sort, return the first
Rank ==
    /\ p_pc = "gather"
    /\ \A i \in Agents : p_task[i] = "done"
    /\ LET stories == gather(p_stories, p_order)
           scored == [i \in Agents |->
                        [stories[i] EXCEPT !.score =
                            score_story(stories[i], p_req.target, p_req.moral)]]
       IN  \E sorted \in {SortByScore(scored)} :
              /\ p_stories' = [i \in Agents |-> << sorted[i] >>]
              /\ p_result' = << PipelineResult(sorted[1], claude_available) >>
    /\ p_pc' = "done"
    /\ UNCHANGED << p_req, p_task, p_raised, p_order, remote_vars, pipe_frame >>

----------------------------------------------------------------------------
(* The ranker applied to bounded inputs *)

RankLengths == {LenStep * k : k \in 0..MaxLenSteps}

RankTargets == {TargetStep * k - 1 : k \in 0..MaxTargetSteps}

\* n words that hold no needle and no '.'
PlainText(n) == [i \in 1..n |-> P(3)]

RankContents ==
    {PlainText(n) : n \in RankLengths}
    \cup {FallbackText("be kind"), TemplateStory("honesty")}
    \cup {t.words : t \in ClaudeTexts}

RankMethods == {"template", "hybrid", "claude", "generic", "narrated"}

RankIdle ==
    /\ rk_in = [story |-> Story(<< >>, << >>, "", 0, "", "template", 0),
                target |-> 0, moral |-> ""]
    /\ rk_out = << >>

rank_vars == << rk_in, rk_out >>

\* one more call of StoryRanker.score_story with the same arguments
Score ==
    /\ Len(rk_out) < MaxRankCalls
    /\ rk_out' = Append(rk_out, score_story(rk_in.story, rk_in.target, rk_in.moral))
    /\ UNCHANGED << rk_in, variant, claude_available, adj_in, adj_out, pipe_vars,
                    narr_vars, list_vars, loop_vars, remote_vars, req_vars >>

----------------------------------------------------------------------------
(* The length adjuster applied to bounded inputs *)

AdjWords == {P(4), X(4, 4, 1, {})}

RECURSIVE TextsUpTo(_)
TextsUpTo(k) ==
    IF k = 0 THEN {<< >>}
    ELSE LET shorter == TextsUpTo(k - 1)
         IN  shorter \cup {Append(t, w) : t \in {s \in shorter : Len(s) = k - 1},
                                          w \in AdjWords}

AdjTexts == TextsUpTo(MaxWords)

AdjTargets == (0 - 1)..MaxAdjTarget

AdjIdle ==
    /\ adj_in = [text |-> << >>, target |-> 0]
    /\ adj_out = << >>

adj_vars == << adj_in, adj_out >>

InitAdjust ==
    /\ variant \in Variants
    /\ adj_in \in [text : AdjTexts, target : AdjTargets]
    /\ adj_out = << >>
    /\ claude_available = FALSE
    /\ RankIdle
    /\ PipeIdle
    /\ ListIdle
    /\ LoopIdle
    /\ RemoteIdle
    /\ ReqIdle
    /\ NarrIdle

Adjust ==
    /\ adj_out = << >>
    /\ \E r \in AdjustLength(variant, adj_in.text, adj_in.target) :
           adj_out' = << r >>
    /\ UNCHANGED << variant, adj_in, claude_available, rank_vars, pipe_vars,
                    narr_vars, list_vars, loop_vars, remote_vars, req_vars >>

NextAdjust == Adjust

SpecAdjust == InitAdjust /\ [][NextAdjust]_vars

----------------------------------------------------------------------------
(* The padding loop of the length adjusters, one round at a time.  A call  *)
(* of the adjuster enters; when it takes the padding branch each round of  *)
(* its while loop picks a filler sentence, and the call returns when the   *)
(* loop's condition fails.                                                 *)

\* the filler pool of the adjuster of server v
FillerPool(v) ==
    CASE v = "fixed" -> get_theme_expansions
      [] v = "improved" -> extensions_improved
      [] OTHER -> extensions_real

AllFillers == UNION {Range(FillerPool(v)) : v \in Variants}

\* a round that appends nothing and leaves the pool as it is
loop_round_appends_nothing(v, loop, e) == loop

\* one round of the while loop with the sentence random.choice picked:
\* words.extend(...), and in improved extensions.remove(extension)
loop_round(v, loop, e) ==
    [loop EXCEPT !.words = @ \o e,
                 !.pool = IF v = "improved"
                          THEN RemoveAt(@, CHOOSE i \in 1..Len(@) : @[i] = e)
                          ELSE @,
                 !.rounds = @ + 1]

\* the adjuster is called: it returns at once from the branches that do not
\* pad, or enters the while loop with its pool
AdjustEnter ==
    /\ pad.pc = "idle"
    /\ LET words == adj_in.text
           target == adj_in.target
           padding ==
               CASE variant = "fixed" -> target > Len(words)
                 [] variant = "improved" ->
                       Len(words) <= target /\ 5 * Len(words) < 4 * target
                 [] OTHER -> Len(words) < target
       IN  IF padding
           THEN /\ pad' = [pc |-> "loop", words |-> words,
                           pool |-> FillerPool(variant), rounds |-> 0]
                /\ UNCHANGED adj_out
           ELSE /\ pad' = [pad EXCEPT !.pc = "done"]
                /\ \E r \in AdjustLength(variant, words, target) : adj_out' = << r >>
    /\ UNCHANGED << variant, adj_in, claude_available, rank_vars, pipe_vars,
                    narr_vars, list_vars, remote_vars, req_vars >>

\* the loop's condition holds and a round runs with the sentence e
PadRound(e) ==
    /\ pad.pc = "loop"
    /\ Len(pad.words) < adj_in.target
    /\ variant # "real" => pad.pool # << >>
    /\ e \in Range(pad.pool)
    /\ pad' = loop_round(variant, pad, e)
    /\ UNCHANGED << variant, adj_in, adj_out, claude_available, rank_vars, pipe_vars,
                    narr_vars, list_vars, remote_vars, req_vars >>

\* the loop's condition fails and the adjuster returns: fixed joins the
\* words, improved and real join words[:target_length]
PadReturn ==
    /\ pad.pc = "loop"
    /\ ~(/\ Len(pad.words) < adj_in.target
         /\ variant # "real" => pad.pool # << >>)
    /\ pad' = [pad EXCEPT !.pc = "done"]
    /\ adj_out' = << IF variant = "fixed" THEN pad.words
                     ELSE SliceTo(pad.words, adj_in.target) >>
    /\ UNCHANGED << variant, adj_in, claude_available, rank_vars, pipe_vars,
                    narr_vars, list_vars, remote_vars, req_vars >>

InitPad == InitAdjust

NextPad ==
    \/ AdjustEnter
    \/ \E e \in AllFillers : PadRound(e)
    \/ PadReturn

\* the adjuster is straight-line code on one thread: a call that can take
\* a step takes it
SpecPad == InitPad /\ [][NextPad]_vars /\ WF_vars(NextPad)

----------------------------------------------------------------------------
(* The ranker on bounded inputs *)

InitRank ==
    /\ variant = "fixed"
    /\ claude_available = FALSE
    /\ AdjIdle
    /\ PipeIdle
    /\ ListIdle
    /\ LoopIdle
    /\ RemoteIdle
    /\ ReqIdle
    /\ NarrIdle
    /\ \E content \in RankContents, method \in RankMethods, moral \in Morals :
           rk_in \in [story : {Story(GeneratedTitle(moral), content, moral,
                                      WordCount(content), AgentId, method, 0)},
                      target : RankTargets, moral : {moral}]
    /\ rk_out = << >>

NextRank == Score

SpecRank == InitRank /\ [][NextRank]_vars

----------------------------------------------------------------------------
(* The pipeline of the fixed server *)

Init ==
    /\ variant = "fixed"
    /\ claude_available \in BOOLEAN
    /\ AdjIdle
    /\ RankIdle
    /\ PipeIdle
    /\ ListIdle
    /\ LoopIdle
    /\ RemoteIdle
    /\ ReqIdle
    /\ NarrIdle

Next ==
    \/ \E moral \in Morals, target \in AllPipeTargets : PipelineStart(moral, target)
    \/ \E i \in Agents : AgentRun(i)
    \/ \E i \in Agents : AgentResume(i)
    \/ Rank

Spec == Init /\ [][Next]_vars

----------------------------------------------------------------------------
(* The narration engine of the three servers: a process whose imports and  *)
(* whose pyttsx3.init() succeeded or failed, serving narrate_story calls    *)

InitNarrate ==
    /\ variant \in Variants
    /\ claude_available = FALSE
    /\ AdjIdle
    /\ RankIdle
    /\ PipeIdle
    /\ ListIdle
    /\ LoopIdle
    /\ RemoteIdle
    /\ ReqIdle
    /\ \E imports \in [AllEngines -> BOOLEAN], init_ok \in BOOLEAN :
          /\ voice_engines = engine_init(variant, imports, init_ok).engines
          /\ voice_profiles = engine_init(variant, imports, init_ok).profiles
    /\ calls = [c \in Calls |-> IdleCall]
    /\ now = 0
    /\ files = {}

NextNarrate ==
    \/ \E c \in 1..NumCalls, voice_id \in AllVoiceIds : NarrateBegin(c, voice_id)
    \/ \E c \in 1..NumCalls, outcome \in SynthOutcomes : SynthFinish(c, outcome)
    \/ Tick
    \/ ListVoices

SpecNarrate == InitNarrate /\ [][NextNarrate]_vars

----------------------------------------------------------------------------
(* The same process serving NumSharing calls that write to one temp_dir *)

NextShare ==
    \/ \E c \in Calls, voice_id \in AllVoiceIds : NarrateBegin(c, voice_id)
    \/ \E c \in Calls, outcome \in SynthOutcomes : SynthFinish(c, outcome)
    \/ Tick

SpecShare == InitNarrate /\ [][NextShare]_vars

----------------------------------------------------------------------------
(* The request handler: handle_request of the fixed server (tools/call),    *)
(* call_tool of improved and real.  An argument is a JSON value; None is    *)
(* what arguments.get returns for a key the request does not carry.         *)

None == [t |-> "none", s |-> "", n |-> 0]

StrV(s) == [t |-> "str", s |-> s, n |-> 0]

IntV(n) == [t |-> "int", s |-> "", n |-> n]

BoolV(b) == [t |-> "bool", s |-> "", n |-> IF b THEN 1 ELSE 0]

\* a non-empty JSON array: truthy, without lower() or title(), unhashable
ListV == [t |-> "list", s |-> "", n |-> 1]

\* arguments.get(key, default)
Get(arg, default) == IF arg.t = "none" THEN default ELSE arg

\* a check that lets the empty string through
IsNone(value) == value.t = "none"

\* `not value`
Falsy(value) ==
    \/ value.t = "none"
    \/ value.t = "str" /\ value.s = ""
    \/ value.t \in {"int", "bool"} /\ value.n = 0

DefaultLength(v) == IF v = "improved" THEN 100 ELSE 75

\* the voice_id of a request that carries none
DefaultVoice(v, tool) ==
    IF v = "fixed"
    THEN (IF tool = "generate_story" THEN None ELSE StrV("default_narrator"))
    ELSE StrV("narrator")

\* narrate (fixed), include_audio (improved, real) of a request without it
DefaultAudio(v) == BoolV(v = "improved")

Tools(v) ==
    {"generate_story", "list_voices", "narrate_text"}
    \cup (IF v = "improved" THEN {"test_audio"} ELSE {})

\* what the handler returns: an error payload, or the JSON text of a story
\* result, of a narration result or of the voice list
Resp(kind, error, story, narration, voices) ==
    [kind |-> kind, error |-> error, story |-> story,
     voice_narration |-> narration, available_voices |-> voices]

ErrorPayload(msg) == Resp("error", msg, << >>, << >>, << >>)

\* the end of an exception that reaches the handler's outermost frame:
\* fixed and improved catch it and return an error payload, real has no
\* try around the body of call_tool
request_boundary(v) ==
    CASE v = "fixed" -> [raised |-> FALSE, resp |-> << ErrorPayload("str(e)") >>]
      [] v = "improved" ->
            [raised |-> FALSE,
             resp |-> << ErrorPayload("Tool execution failed: str(e)") >>]
      [] OTHER -> [raised |-> TRUE, resp |-> << >>]

Returned(resp) == [raised |-> FALSE, resp |-> << resp >>]

\* a handler that answers a failed narration with an error payload
story_response_or_error(story, narration, voices) ==
    IF narration # << >> /\ ~narration[1].success
    THEN ErrorPayload(narration[1].error)
    ELSE Resp("story", "", << story >>, narration, << voices >>)

\* generate_story: the result dict with voice_narration, when narrated, and
\* available_voices added
story_response(story, narration, voices) ==
    Resp("story", "", << story >>, narration, << voices >>)

\* `voice_id not in self.voice_profiles` raises TypeError for an unhashable
\* voice_id; improved returns before it when there is no profile
narrate_story_raises(v, profiles, voice_id) ==
    voice_id.t = "list" /\ ~(v = "improved" /\ profiles = << >>)

\* a handler that narrates whenever narration is asked for, with or without
\* a voice_id
wants_narration_any_voice(v, req) ==
    ~Falsy(Get(req.audio, DefaultAudio(v)))

\* generate_story: is the story to be narrated
wants_narration(v, req) ==
    IF v = "fixed"
    THEN ~Falsy(Get(req.audio, DefaultAudio(v)))
         /\ ~Falsy(Get(req.voice_id, DefaultVoice(v, req.tool)))
    ELSE ~Falsy(Get(req.audio, DefaultAudio(v)))

\* the handler from the call of narrate_story to its next await or return:
\* where it is, the narrate_story call it started, what it returned or raised
into_narration(v, req, profiles, engines) ==
    LET voice_id == Get(req.voice_id, DefaultVoice(v, req.tool))
    IN  IF narrate_story_raises(v, profiles, voice_id)
        THEN [pc |-> "done", call |-> << >>, out |-> request_boundary(v)]
        ELSE [pc |-> "narrate",
              call |-> << started_call(v, profiles, engines, voice_id.s) >>,
              out |-> [raised |-> FALSE, resp |-> << >>]]

\* generate_story from the return of the story generation on
after_story(v, req, story, profiles, engines) ==
    IF wants_narration(v, req)
    THEN into_narration(v, req, profiles, engines)
    ELSE [pc |-> "done", call |-> << >>,
          out |-> Returned(story_response(story, << >>,
                              get_available_voices(v, profiles, engines)))]

\* the requests: a moral that is missing, empty, with template, without, or
\* not a string; a voice_id that is missing, empty, unknown, the first
\* profile's, or not a string
ReqMorals == {None, StrV(""), StrV("honesty"), StrV("patience"), IntV(7)}

ReqVoices ==
    {None, ListV}
    \cup {StrV(id) : id \in {"", "no_such_voice", "default_narrator", "narrator"}}

ReqAudio == {None, BoolV(TRUE), BoolV(FALSE)}

ReqTexts == {None, StrV(""), StrV("text")}

ReqLengths == {IntV(MaxSmallTarget)}

Req(tool, moral, length, voice_id, audio, text) ==
    [tool |-> tool, moral |-> moral, length |-> length, voice_id |-> voice_id,
     audio |-> audio, text |-> text]

Requests ==
    {Req("generate_story", m, l, vo, a, None) :
        m \in ReqMorals, l \in ReqLengths, vo \in ReqVoices, a \in ReqAudio}
    \cup {Req("narrate_text", None, None, vo, None, t) : vo \in ReqVoices, t \in ReqTexts}
    \cup {Req("test_audio", None, None, vo, None, None) : vo \in ReqVoices}
    \cup {Req(tool, None, None, None, None, None) : tool \in {"list_voices", "no_such_tool"}}

\* what the handler leaves alone
req_frame ==
    << variant, claude_available, adj_in, adj_out, rk_in, rk_out,
       voice_engines, voice_profiles, now, files, list_vars, loop_vars >>

\* the narrate_story call of the request
ReqCall == 1

\* the handler moves on: its place, the call it started, its answer
HandlerStep(a) ==
    /\ r_pc' = a.pc
    /\ calls' = IF a.call = << >> THEN calls ELSE [calls EXCEPT ![ReqCall] = a.call[1]]
    /\ r_resp' = a.out.resp
    /\ r_raised' = a.out.raised

Answer(out) == [pc |-> "done", call |-> << >>, out |-> out]

\* the handler of a server whose engine holds `profiles` and reads `engines`,
\* from the arrival of a request to its first await or to its return
serve(req, profiles, engines) ==
    /\ r_pc = "idle"
    /\ req.voice_id.t = "str" => req.voice_id.s \in VoiceIds(variant) \cup {""}
    /\ r_req' = << req >>
    /\ IF req.tool = "generate_story"
       THEN IF Falsy(req.moral)
            THEN /\ HandlerStep(Answer(Returned(
                        ErrorPayload("Missing required parameter: moral"))))
                 /\ UNCHANGED << p_pc, p_req >>
            ELSE IF variant # "fixed"
            THEN /\ r_pc' = "story"
                 /\ UNCHANGED << calls, r_resp, r_raised, p_pc, p_req >>
            ELSE IF req.moral.t # "str"
            THEN /\ HandlerStep(Answer(request_boundary(variant)))
                 /\ UNCHANGED << p_pc, p_req >>
            ELSE /\ r_pc' = "story"
                 /\ p_pc' = "gather"
                 /\ p_req' = [moral |-> req.moral.s,
                              target |-> Get(req.length, IntV(DefaultLength(variant))).n]
                 /\ UNCHANGED << calls, r_resp, r_raised >>
       ELSE /\ UNCHANGED << p_pc, p_req >>
            /\ IF req.tool \notin Tools(variant)
               THEN HandlerStep(Answer(Returned(ErrorPayload("Unknown tool"))))
               ELSE IF req.tool = "list_voices"
               THEN HandlerStep(Answer(Returned(
                        Resp("voices", "", << >>, << >>,
                             << get_available_voices(variant, profiles,
                                                     engines) >>))))
               ELSE IF req.tool = "narrate_text" /\ Falsy(req.text)
               THEN HandlerStep(Answer(Returned(
                        ErrorPayload("Missing required parameter: text"))))
               ELSE HandlerStep(into_narration(variant, req, profiles, engines))
    /\ UNCHANGED << r_story, p_task, p_stories, p_result, p_raised, p_order,
                    remote_vars, variant, claude_available, adj_in, adj_out,
                    rk_in, rk_out, now, files, list_vars, loop_vars >>

\* a request arrives at the server the process built at startup
HandleRequest(req) ==
    /\ serve(req, voice_profiles, voice_engines)
    /\ UNCHANGED << voice_engines, voice_profiles >>

\* improved, real: story_generator.generate_story runs, with its remote call
\* when the generator is available, and the handler goes on to its next
\* await or to its return
StoryGenerate(outcome) ==
    /\ r_pc = "story"
    /\ variant # "fixed"
    /\ g_out' = IF claude_available THEN [g_out EXCEPT ![1] = @ + 1] ELSE g_out
    /\ LET req == r_req[1]
           length == Get(req.length, IntV(DefaultLength(variant))).n
       IN  IF req.moral.t # "str"
           THEN /\ HandlerStep(Answer(request_boundary(variant)))
                /\ UNCHANGED r_story
           ELSE \E story \in StoryGenerator_generate_story(variant, req.moral.s, length,
                                 claude_available, claude_generate_story(outcome)) :
                   /\ r_story' = << story >>
                   /\ HandlerStep(after_story(variant, req, story, voice_profiles,
                                              voice_engines))
    /\ UNCHANGED << r_req, g_pc, g_ret, pipe_vars, req_frame >>

\* fixed: pipeline.generate_story returned or raised, and the handler goes
\* on to its next await or to its return
PipelineReturn ==
    /\ r_pc = "story"
    /\ variant = "fixed"
    /\ p_pc = "done"
    /\ IF p_raised
       THEN /\ HandlerStep(Answer(request_boundary(variant)))
            /\ UNCHANGED r_story
       ELSE /\ r_story' = p_result
            /\ HandlerStep(after_story(variant, r_req[1], p_result[1], voice_profiles,
                                       voice_engines))
    /\ UNCHANGED << r_req, remote_vars, pipe_vars, req_frame >>

\* narrate_story returned and the handler returns
NarrationReturn ==
    /\ r_pc = "narrate"
    /\ calls[ReqCall].pc = "done"
    /\ r_pc' = "done"
    /\ r_resp' =
          << IF r_req[1].tool = "generate_story"
             THEN story_response(r_story[1], calls[ReqCall].result,
                      get_available_voices(variant, voice_profiles, voice_engines))
             ELSE Resp(r_req[1].tool, "", << >>, calls[ReqCall].result, << >>) >>
    /\ UNCHANGED << r_req, r_story, r_raised, calls, remote_vars, pipe_vars, req_frame >>

\* the machines of the requests: pyttsx3 installed or not, its init()
\* working or not, no other engine
InitRequest ==
    /\ variant \in Variants
    /\ claude_available \in BOOLEAN
    /\ AdjIdle
    /\ RankIdle
    /\ PipeIdle
    /\ ListIdle
    /\ LoopIdle
    /\ RemoteIdle
    /\ ReqIdle
    /\ \E pyttsx3 \in BOOLEAN, init_ok \in BOOLEAN :
          LET imports == [e \in AllEngines |-> e = "pyttsx3" /\ pyttsx3]
          IN  /\ voice_engines = engine_init(variant, imports, init_ok).engines
              /\ voice_profiles = engine_init(variant, imports, init_ok).profiles
    /\ calls = [c \in Calls |-> IdleCall]
    /\ now = 0
    /\ files = {}

NextRequest ==
    \/ \E req \in Requests : HandleRequest(req)
    \/ \E i \in Agents : AgentRun(i)
    \/ \E i \in Agents : AgentResume(i)
    \/ Rank
    \/ PipelineReturn
    \/ \E outcome \in RemoteOutcomes : StoryGenerate(outcome)
    \/ \E outcome \in SynthOutcomes : SynthFinish(ReqCall, outcome)
    \/ NarrationReturn

SpecRequest == InitRequest /\ [][NextRequest]_vars

----------------------------------------------------------------------------
(* The client, src/voice_storyteller_client.py.  MCPClient.call_tool        *)
(* imports EnhancedMCPServer, builds a server of its own for the request    *)
(* and awaits its handle_request; the client and the server share one       *)
(* process, and so one voice_engines dict.  voice_profiles holds the        *)
(* profiles of the server built last, the one serving the request.          *)

\* MCPClient.call_tool of a connected client: EnhancedMCPServer() runs
\* VoiceNarrationEngine.__init__, which calls pyttsx3.init() when
\* voice_engines marks pyttsx3 available, and handle_request serves the
\* request on the new engine
call_tool(req, init_ok) ==
    /\ r_pc = "idle"
    /\ variant = "fixed"
    /\ LET server == engine_init(variant, voice_engines, init_ok)
       IN  /\ voice_engines' = server.engines
           /\ voice_profiles' = server.profiles
           /\ serve(req, server.profiles, server.engines)

\* the caller has its answer (or the exception) and the process is ready
\* for the next request
NextRequestReady ==
    /\ r_pc = "done"
    /\ r_pc' = "idle"
    /\ r_req' = << >>
    /\ r_story' = << >>
    /\ r_resp' = << >>
    /\ r_raised' = FALSE
    /\ calls' = [c \in Calls |-> IdleCall]
    /\ p_pc' = "idle"
    /\ p_req' = [moral |-> "", target |-> 0]
    /\ p_task' = [i \in Agents |-> "new"]
    /\ p_stories' = [i \in Agents |-> << >>]
    /\ p_result' = << >>
    /\ p_raised' = FALSE
    /\ p_order' = << >>
    /\ g_out' = [k \in Invocations |-> 0]
    /\ g_ret' = [k \in Invocations |-> << >>]
    /\ UNCHANGED << g_pc, req_frame >>

\* the client's process once a first server has been built in it
InitClient ==
    /\ InitRequest
    /\ variant = "fixed"

NextClient ==
    \/ \E req \in Requests, init_ok \in BOOLEAN : call_tool(req, init_ok)
    \/ \E i \in Agents : AgentRun(i)
    \/ \E i \in Agents : AgentResume(i)
    \/ Rank
    \/ PipelineReturn
    \/ \E outcome \in SynthOutcomes : SynthFinish(ReqCall, outcome)
    \/ NarrationReturn
    \/ NextRequestReady

SpecClient == InitClient /\ [][NextClient]_vars

----------------------------------------------------------------------------
(* The remote generator serving NumInvocations generate_story calls, which  *)
(* the agents of a run make concurrently                                    *)

InitRemote ==
    /\ variant \in Variants
    /\ claude_available \in BOOLEAN
    /\ AdjIdle
    /\ RankIdle
    /\ PipeIdle
    /\ ListIdle
    /\ LoopIdle
    /\ RemoteIdle
    /\ ReqIdle
    /\ NarrIdle

NextRemote ==
    \/ \E k \in Invocations : GenerateCall(k)
    \/ \E k \in Invocations, outcome \in RemoteOutcomes : GenerateReturn(k, outcome)

SpecRemote == InitRemote /\ [][NextRemote]_vars

----------------------------------------------------------------------------
(* Properties of the pipeline (Spec) *)

KnownMethods == {"template", "hybrid", "claude", "generic"}

\* C1: for every moral and target length, whether the remote generator is
\* available or not and whatever a remote call ends in, the pipeline raises
\* nothing and, once it has returned, has returned a story whose
\* generation_method is one of the known values ("claude" is the code's word
\* for the remote method).
C1_PipelineAlwaysReturnsKnownMethod ==
    /\ ~p_raised
    /\ p_pc = "done" =>
          /\ p_result # << >>
          /\ p_result[1].generation_method \in KnownMethods

\* a run that returned with the remote generator disabled and no template
\* for the moral
C1_Witness ==
    /\ p_pc = "done"
    /\ ~claude_available
    /\ Lower(p_req.moral) \notin TemplateKeys
    /\ p_result # << >>
    /\ p_result[1].generation_method = "template"

SameScore(a, b) == ~ScoreLess(a, b) /\ ~ScoreLess(b, a)

\* C3: the story the pipeline returns is stories[0] of the sorted list; no
\* candidate has a higher score, and every other candidate of the same score
\* comes from an agent registered later.
C3_WinnerIsHighestEarliest ==
    (p_pc = "done" /\ p_result # << >>) =>
        LET winner == p_stories[1][1]
        IN  /\ p_result[1] = PipelineResult(winner, claude_available)
            /\ \A i \in Agents :
                  /\ ~ScoreLess(winner.score, p_stories[i][1].score)
                  /\ (i # 1 /\ SameScore(winner.score, p_stories[i][1].score))
                        => winner.slot < p_stories[i][1].slot

\* a run that returned with two candidates sharing the highest score
C3_Witness ==
    /\ p_pc = "done"
    /\ p_result # << >>
    /\ \E i \in Agents :
          /\ i # 1
          /\ SameScore(p_stories[1][1].score, p_stories[i][1].score)
          /\ p_stories[1][1].slot < p_stories[i][1].slot

----------------------------------------------------------------------------
(* Properties of the length adjusters (SpecAdjust) *)

\* C2: for every text and every target >= 1 the text the length adjuster
\* returns has at most target words.
C2_AdjustedWordCountAtMostTarget ==
    (adj_out # << >> /\ adj_in.target >= 1) =>
        WordCount(adj_out[1]) <= adj_in.target

\* the fixed server's adjuster returned more words than the target
C2_Overshoot ==
    /\ variant = "fixed"
    /\ adj_out # << >>
    /\ adj_in.target >= 1
    /\ WordCount(adj_out[1]) > adj_in.target

----------------------------------------------------------------------------
(* Properties of the ranker (SpecRank) *)

----------------------------------------------------------------------------
(* Properties of narration (SpecNarrate, SpecShare) *)

\* call c invoked the synthesis routine of profile p
Uses(c, p) == calls[c].profile = << p >> /\ calls[c].attempts # << >>

Started(c) == calls[c].pc # "idle"

Known(voice_id) == voice_id \in ProfileIds(voice_profiles)

\* C5: a call whose voice_id names a known profile of an available backend
\* uses that profile; every other call (voice_id unknown, or known with its
\* backend marked unavailable) uses the first profile in registry order whose
\* backend is marked available, when there is one.
C5_ResolutionFallsBackUnlessKnownAvailable ==
    \A c \in Calls : Started(c) =>
        LET id == calls[c].voice_id
            available == working_profiles(voice_profiles, voice_engines)
        IN  IF Known(id) /\ voice_engines[ProfileOf(voice_profiles, id).engine]
            THEN Uses(c, ProfileOf(voice_profiles, id))
            ELSE available # << >> => Uses(c, available[1])

\* a call named a known profile whose backend is marked unavailable while
\* another backend is available, and got an error and no synthesis
C5_KnownUnavailableRefused ==
    \E c \in Calls :
        /\ Started(c)
        /\ Known(calls[c].voice_id)
        /\ ~voice_engines[ProfileOf(voice_profiles, calls[c].voice_id).engine]
        /\ working_profiles(voice_profiles, voice_engines) # << >>
        /\ calls[c].pc = "done"
        /\ calls[c].attempts = << >>

\* the errors of a call that found no voice
NoVoiceErrors ==
    {NoVoiceError(v) : v \in Variants} \cup {"No voice profiles available"}

\* C6: a call whose voice_id is in no profile of the registry, made while a
\* backend is available, invokes the synthesis routine of a profile whose
\* backend is available, and does not end with the no-voice error.
C6_UnknownVoiceUsesAvailableProfile ==
    \A c \in Calls :
        (/\ Started(c)
         /\ ~Known(calls[c].voice_id)
         /\ \E e \in Backends(variant) : voice_engines[e])
        => /\ calls[c].profile # << >>
           /\ voice_engines[calls[c].profile[1].engine]
           /\ calls[c].attempts = << calls[c].profile[1].engine >>
           /\ calls[c].pc = "done" => calls[c].result[1].error \notin NoVoiceErrors

\* an unknown voice_id was served by a gtts profile, the registry's first
\* profile being one of pyttsx3, which is marked unavailable
C6_Witness ==
    \E c \in Calls :
        /\ calls[c].voice_id = "no_such_voice"
        /\ voice_profiles # << >>
        /\ voice_profiles[1].engine = "pyttsx3"
        /\ ~voice_engines["pyttsx3"]
        /\ calls[c].pc = "done"
        /\ calls[c].attempts = << "gtts" >>
        /\ calls[c].result[1].success

\* C7: when no backend is available, every call, whatever its voice_id, has
\* returned success = false with a non-empty error and invoked no synthesis
\* routine.
C7_NoBackendNoSynthesis ==
    (\A e \in AllEngines : ~voice_engines[e]) =>
        \A c \in Calls : Started(c) =>
            /\ calls[c].pc = "done"
            /\ calls[c].attempts = << >>
            /\ ~calls[c].result[1].success
            /\ calls[c].result[1].error # ""

\* with no backend available a call invoked a synthesis routine
C7_SynthesisWithoutBackend ==
    /\ \A e \in AllEngines : ~voice_engines[e]
    /\ \E c \in Calls : calls[c].attempts # << >>

\* C8: a call invokes at most one synthesis routine, the one of the resolved
\* profile's engine, and when the engine raised the call has returned a
\* failure without invoking another.
C8_OneBackendPerCall ==
    \A c \in Calls :
        /\ Len(calls[c].attempts) <= 1
        /\ calls[c].attempts # << >> =>
              /\ calls[c].profile # << >>
              /\ calls[c].attempts[1] = calls[c].profile[1].engine
        /\ calls[c].outcome = "raise" =>
              /\ calls[c].pc = "done"
              /\ ~calls[c].result[1].success

\* a call whose engine raised returned a failure while another backend was
\* available
C8_Witness ==
    \E c \in Calls :
        /\ calls[c].pc = "done"
        /\ calls[c].outcome = "raise"
        /\ Len(calls[c].attempts) = 1
        /\ ~calls[c].result[1].success
        /\ \E e \in Backends(variant) : e # calls[c].attempts[1] /\ voice_engines[e]

\* call c wrote an audio file
Wrote(c) == calls[c].pc = "done" /\ calls[c].outcome \in {"empty", "ok"}

\* C9: any two calls of the process that wrote an audio file wrote it under
\* different names.
C9_DistinctFileNames ==
    \A c, d \in Calls :
        (c # d /\ Wrote(c) /\ Wrote(d)) => calls[c].file # calls[d].file

\* two calls wrote the same file
C9_Collision ==
    \E c, d \in Calls : c # d /\ Wrote(c) /\ Wrote(d) /\ calls[c].file = calls[d].file

\* C10: a call whose engine raised, or left no file or an empty one, has
\* returned success = false with an error message; so every success = true
\* names a file that exists and is not empty.
C10_SuccessMeansAudioFile ==
    \A c \in Calls : calls[c].pc = "done" =>
        /\ calls[c].outcome \in {"raise", "nofile", "empty"} =>
              /\ ~calls[c].result[1].success
              /\ calls[c].result[1].error # ""
        /\ calls[c].result[1].success =>
              /\ calls[c].result[1].audio_file # << >>
              /\ NonEmpty(files, calls[c].result[1].audio_file[1])

\* a call returned success = true for a file that is empty
C10_SuccessOnEmptyFile ==
    \E c \in Calls :
        /\ calls[c].pc = "done"
        /\ calls[c].outcome = "empty"
        /\ calls[c].result[1].success
        /\ ~NonEmpty(files, calls[c].file[1])

----------------------------------------------------------------------------
\* the entries of a list_voices result as [id, engine, available]
ListedEntries(r) ==
    UNION {{r.voices_by_engine[e][k] : k \in 1..Len(r.voices_by_engine[e])} :
              e \in DOMAIN r.voices_by_engine}

Catalogue(v) == {AllProfiles(v)[i] : i \in 1..Len(AllProfiles(v))}

\* C11: list_voices returns the whole static catalogue whatever the backends:
\* every catalogue profile is listed, with available equal to the availability
\* of its backend, so with every backend unavailable every catalogue profile
\* is listed with available = false.
C11_ListVoicesReturnsFullCatalogue ==
    listed # << >> =>
        \A p \in Catalogue(variant) :
            VoiceEntry(p, voice_engines) \in ListedEntries(listed[1])

\* list_voices answered with every backend unavailable and listed nothing
C11_EmptyListing ==
    /\ listed # << >>
    /\ \A e \in AllEngines : ~voice_engines[e]
    /\ ListedEntries(listed[1]) = {}

----------------------------------------------------------------------------
\* C12: when the moral matches no template and the remote generator is
\* unavailable or returns nothing, the story the agent returns is the generic
\* fallback and its generation_method is "generic".
C12_FallbackMethodIsGeneric ==
    \A i \in Agents :
        (/\ p_task[i] = "done"
         /\ p_pc = "gather"
         /\ Lower(p_req.moral) \notin TemplateKeys
         /\ p_stories[i][1].generation_method # "claude")
        => p_stories[i][1].generation_method = "generic"

\* without the remote generator an agent returned the fallback story of a
\* moral without template, labelled "template"
C12_FallbackLabelledTemplate ==
    \E i \in Agents :
        /\ p_task[i] = "done"
        /\ p_pc = "gather"
        /\ ~claude_available
        /\ Lower(p_req.moral) \notin TemplateKeys
        /\ p_stories[i][1].content \in
               adjust_story_length_basic(FallbackText(p_req.moral), p_req.target)
        /\ p_stories[i][1].generation_method = "template"

----------------------------------------------------------------------------
\* C13: without the remote generator, generate_story for a moral that has a
\* template (in any letter case) and a target of at least 1 returns the
\* template's title, generation_method "template" and at most target words.
C13_TemplateStoryWithinTarget ==
    (/\ p_result # << >>
     /\ ~claude_available
     /\ Lower(p_req.moral) \in TemplateKeys
     /\ p_req.target >= 1)
    => /\ p_result[1].title = TemplateTitle(Lower(p_req.moral))
       /\ p_result[1].generation_method = "template"
       /\ WordCount(p_result[1].content) <= p_req.target

\* a template story came back padded beyond a target above its length
C13_TemplateOvershoot ==
    /\ p_result # << >>
    /\ ~claude_available
    /\ p_req.moral = "Honesty"
    /\ p_req.target > Len(TemplateStory("honesty"))
    /\ p_result[1].title = TemplateTitle("honesty")
    /\ WordCount(p_result[1].content) > p_req.target

\* every word of the moral occurs in the content
Mentions(content, moral) ==
    \A k \in 1..Len(LowerSplit(moral)) : Contains(content, LowerSplit(moral)[k])

\* C14: without the remote generator, generate_story for a moral that has no
\* template returns the generic fallback story: its content contains the
\* moral keyword and has at most target words.
C14_FallbackMentionsMoralWithinTarget ==
    (/\ p_result # << >>
     /\ ~claude_available
     /\ Lower(p_req.moral) \notin TemplateKeys)
    => /\ Mentions(p_result[1].content, p_req.moral)
       /\ WordCount(p_result[1].content) <= p_req.target

\* the fallback story of a moral without template came back longer than a
\* target above the length of its text
C14_FallbackOvershoot ==
    /\ p_result # << >>
    /\ ~claude_available
    /\ p_req.moral = "patience"
    /\ p_req.target > Len(FallbackText("patience"))
    /\ Mentions(p_result[1].content, "patience")
    /\ WordCount(p_result[1].content) > p_req.target

----------------------------------------------------------------------------
\* the word count lies in [0.8 x target, target]
InBand(words, target) ==
    5 * WordCount(words) >= 4 * target /\ WordCount(words) <= target

\* C15: a text whose word count lies in [0.8 x target, target] is returned
\* unchanged by the length adjuster: nothing appended, nothing removed (so a
\* second adjustment of a result in that band changes nothing).
C15_InBandTextUnchanged ==
    (adj_out # << >> /\ InBand(adj_in.text, adj_in.target)) =>
        adj_out[1] = adj_in.text

\* a text of four words and target five came back with filler appended
C15_InBandTextPadded ==
    /\ adj_out # << >>
    /\ InBand(adj_in.text, adj_in.target)
    /\ WordCount(adj_in.text) < adj_in.target
    /\ adj_out[1] # adj_in.text
    /\ SubSeq(adj_out[1], 1, Len(adj_in.text)) = adj_in.text

----------------------------------------------------------------------------
\* the text ends with a sentence terminator
EndsWithPeriod(words) ==
    words # << >> /\ words[Len(words)].d = words[Len(words)].n

\* C22: when the input has more than target words, the length adjuster
\* returns either the raw truncation of exactly target words, or a cut at a
\* sentence boundary that ends with the period and keeps at least
\* 0.8 x target words; it never returns a cut of fewer than 0.8 x target words.
C22_TruncationKeepsFourFifths ==
    (adj_out # << >> /\ WordCount(adj_in.text) > adj_in.target) =>
        \/ /\ adj_out[1] = SubSeq(adj_in.text, 1, adj_in.target)
           /\ WordCount(adj_out[1]) = adj_in.target
        \/ /\ EndsWithPeriod(adj_out[1])
           /\ 5 * WordCount(adj_out[1]) >= 4 * adj_in.target

\* improved: four words cut to a target of three came back as the first
\* sentence alone, one word
C22_CutBelowFourFifths ==
    /\ variant = "improved"
    /\ adj_out # << >>
    /\ adj_in.target = 3
    /\ WordCount(adj_in.text) = 4
    /\ WordCount(adj_out[1]) = 1
    /\ EndsWithPeriod(adj_out[1])

----------------------------------------------------------------------------
\* the ways to draw sentences from a pool of n without replacement
DrawsWithoutReplacement(n) ==
    {d \in UNION {[1..k -> 1..n] : k \in 0..n} :
        \A i, j \in DOMAIN d : i # j => d[i] # d[j]}

\* the text followed by the first k sentences drawn
RECURSIVE Padded(_, _, _, _)
Padded(words, pool, draw, k) ==
    IF k = 0 THEN words ELSE Padded(words, pool, draw, k - 1) \o pool[draw[k]]

\* the adjuster padded the text: it returned it with something appended
WasPadded ==
    /\ adj_out # << >>
    /\ WordCount(adj_out[1]) > WordCount(adj_in.text)
    /\ SubSeq(adj_out[1], 1, Len(adj_in.text)) = adj_in.text

\* C23: when the length adjuster pads a short text, it appends each filler
\* sentence of the pool at most once (drawn without replacement), stops as
\* soon as the word count reaches the target or the pool is exhausted,
\* returns exactly target words when the target was reached, and returns
\* the still-short text when the pool ran out first.
C23_PaddingDrawsWithoutReplacement ==
    WasPadded =>
        LET pool == FillerPool(variant)
            target == adj_in.target
        IN  \E draw \in DrawsWithoutReplacement(Len(pool)) :
               LET n == Len(draw)
                   full == Padded(adj_in.text, pool, draw, n)
               IN  /\ n > 0
                   /\ WordCount(Padded(adj_in.text, pool, draw, n - 1)) < target
                   /\ WordCount(full) >= target \/ n = Len(pool)
                   /\ adj_out[1] = SubSeq(full, 1, Min(target, Len(full)))

\* fixed, real: the text came back with one filler sentence appended twice
\* in a row
C23_SentenceAppendedTwice ==
    /\ variant # "improved"
    /\ WasPadded
    /\ \E e \in Range(FillerPool(variant)) :
          LET k == Len(adj_in.text)
          IN  /\ Len(adj_out[1]) >= k + 2 * Len(e)
              /\ SubSeq(adj_out[1], k + 1, k + 2 * Len(e)) = e \o e

----------------------------------------------------------------------------
(* Properties of the request handler (SpecRequest) *)

\* the narrate_story call of the request returned a failure
NarrationFailed ==
    /\ calls[ReqCall].pc = "done"
    /\ ~calls[ReqCall].result[1].success

\* C16: a generate_story request whose narration failed (no voice, backend
\* unavailable, synthesis error) is answered with the story result, carrying
\* title, content, moral, length and generation method, the failure
\* (success = false, an error) being in its voice_narration field only; the
\* answer is not an error and nothing is raised.
C16_NarrationFailureKeepsStory ==
    (/\ r_pc = "done"
     /\ r_req[1].tool = "generate_story"
     /\ NarrationFailed)
    => /\ ~r_raised
       /\ r_resp # << >>
       /\ r_resp[1].kind = "story"
       /\ r_resp[1].error = ""
       /\ r_resp[1].story = r_story
       /\ r_story # << >>
       /\ {"title", "content", "moral", "length"} \subseteq DOMAIN r_story[1]
       /\ {"generation_method", "method"} \cap DOMAIN r_story[1] # {}
       /\ r_resp[1].voice_narration = calls[ReqCall].result
       /\ r_resp[1].voice_narration[1].error # ""

\* a story was generated, its synthesis raised, and the answer is the story
\* with the failure in voice_narration
C16_Witness ==
    /\ r_pc = "done"
    /\ r_req[1].tool = "generate_story"
    /\ calls[ReqCall].outcome = "raise"
    /\ r_resp[1].kind = "story"
    /\ r_resp[1].story[1].content # << >>
    /\ ~r_resp[1].voice_narration[1].success

\* the request lacks its required argument, or carries it empty
MissingRequired(req) ==
    \/ req.tool = "generate_story" /\ req.moral \in {None, StrV("")}
    \/ req.tool = "narrate_text" /\ req.text \in {None, StrV("")}

\* C17: a generate_story request without moral or with an empty one, and a
\* narrate_text request without text or with an empty one, is answered with
\* an error payload before anything else happens: no agent has run, no
\* request went to the remote generator, no narration call or synthesis
\* was started.
C17_MissingArgumentRejectedFirst ==
    (r_req # << >> /\ MissingRequired(r_req[1]))
    => /\ r_pc = "done"
       /\ ~r_raised
       /\ r_resp # << >>
       /\ r_resp[1].kind = "error"
       /\ r_resp[1].error \in {"Missing required parameter: moral",
                                "Missing required parameter: text"}
       /\ p_pc = "idle"
       /\ \A i \in Agents : p_task[i] = "new"
       /\ \A k \in Invocations : g_out[k] = 0
       /\ r_story = << >>
       /\ calls[ReqCall] = IdleCall
       /\ files = {}

\* an empty moral was rejected on a server whose remote generator and
\* pyttsx3 are available, the request asking for narration
C17_Witness ==
    /\ r_pc = "done"
    /\ r_req[1].tool = "generate_story"
    /\ r_req[1].moral = StrV("")
    /\ r_req[1].audio = BoolV(TRUE)
    /\ claude_available
    /\ voice_engines["pyttsx3"]
    /\ r_resp[1].error = "Missing required parameter: moral"

\* C18: whatever is raised while a request is handled, in story generation,
\* ranking, narration or voice listing, the handler of every server variant
\* raises nothing and answers with an error payload.
C18_HandlerNeverRaises ==
    /\ ~r_raised
    /\ r_pc = "done" => r_resp # << >>

\* the real server's call_tool raised on a moral that is not a string
C18_RealHandlerRaised ==
    /\ variant = "real"
    /\ r_pc = "done"
    /\ r_req[1].moral = IntV(7)
    /\ r_raised
    /\ r_resp = << >>

----------------------------------------------------------------------------
(* Properties of the remote generator (SpecRemote) *)

\* C19: a generate_story call of the remote generator returns None and
\* raises nothing when the generator is not configured, when the outbound
\* call failed and when the response has no content; a call sends at most
\* one request, none when the generator is not configured, and a failed
\* request is not sent again.
C19_RemoteReturnsNoneAndCallsOnce ==
    \A k \in Invocations :
        /\ g_out[k] <= 1
        /\ ~claude_available => g_out[k] = 0
        /\ g_pc[k] = "done" =>
              /\ ~g_ret[k][1].raised
              /\ g_ret[k][1].how \in {"unavailable", "raise", "no_content"} =>
                     g_ret[k][1].text = << >>
              /\ g_ret[k][1].how = "raise" => g_out[k] = 1

\* two calls were made on a configured generator: the request of one
\* failed, the other got an empty response, both returned None
C19_Witness ==
    /\ claude_available
    /\ \E j, k \in Invocations :
          /\ g_pc[j] = "done" /\ g_ret[j][1].how = "raise"
          /\ g_pc[k] = "done" /\ g_ret[k][1].how = "no_content"
          /\ g_out[j] = 1 /\ g_out[k] = 1
          /\ g_ret[j][1].text = << >> /\ g_ret[k][1].text = << >>

----------------------------------------------------------------------------
(* Properties of the pipeline's join (Spec) *)

\* a story of the run carries a score
SomeScored == \E i \in Agents : p_stories[i] # << >> /\ p_stories[i][1].score # NoScore

\* the story the agent at place i of self.agents produced, as ranked
ProducedBy(i) ==
    (CHOOSE j \in Agents : p_stories[j][1].slot = i) 

\* C20: in a run of the pipeline no story is scored and no winner is chosen
\* before the tasks of all registered agents have finished, in whatever order
\* they finish; and the winner is the one the agents' stories taken in the
\* order of registration give, whatever the order the tasks finished in.
C20_RankAfterJoinOrderFree ==
    /\ (SomeScored \/ p_result # << >>) =>
          /\ \A i \in Agents : p_task[i] = "done"
          /\ Len(p_order) = NumAgents
    /\ p_result # << >> =>
          LET produced == [i \in Agents |-> p_stories[ProducedBy(i)][1]]
          IN  /\ p_stories[1][1] = SortByScore(produced)[1]
              /\ p_result[1] = PipelineResult(SortByScore(produced)[1], claude_available)

\* a run whose first agent finished after another one, with a story of the
\* same score as the runner-up, and won
C20_Witness ==
    /\ p_result # << >>
    /\ p_order[1] # 1
    /\ p_stories[1][1].slot = 1
    /\ p_stories[2][1].score = p_stories[1][1].score
    /\ p_stories[2][1].slot = p_order[1]


----------------------------------------------------------------------------
(* Properties of the agent's strategy (Spec).  While the pipeline gathers, *)
(* p_stories[i] is the story of agent i, g_out[i] the remote calls the     *)
(* agent made and g_ret[i] what its call returned.                         *)

\* the template stories for the request: the template adjusted to the target
TemplateStories(i) ==
    {Story(TemplateTitle(Lower(p_req.moral)), content, p_req.moral,
           WordCount(content), "adventure_agent", "template", i) :
        content \in adjust_story_length_basic(TemplateStory(Lower(p_req.moral)),
                                              p_req.target)}

\* the template story is more than 10 words away from the target
Deviates(story) == Abs(story.length - p_req.target) > 10

\* the remote call of agent i returned a text
RemoteSucceeded(i) ==
    /\ g_ret[i] # << >>
    /\ g_ret[i][1].text # << >>
    /\ g_ret[i][1].text[1].words # << >>

\* C24: when the moral matches a template, the agent calls the remote
\* generator exactly when the generator is available and the adjusted
\* template is more than 10 words away from the target; if the call returns
\* a text, content and length are replaced by the remote text and
\* generation_method is hybrid, title and agent_id staying the template's;
\* if it returns nothing, or is not made, the template story is returned
\* unchanged with generation_method template.
C24_TemplateEnhancedOnlyWhenFarOff ==
    (p_pc = "gather" /\ Lower(p_req.moral) \in TemplateKeys) =>
        \A i \in Agents :
           /\ g_out[i] \in {0, 1}
           /\ p_task[i] = "new" => g_out[i] = 0
           /\ p_task[i] = "await_enhance" =>
                 /\ g_out[i] = 1
                 /\ claude_available
                 /\ p_stories[i][1] \in TemplateStories(i)
                 /\ Deviates(p_stories[i][1])
           /\ p_task[i] = "done" =>
                 LET s == p_stories[i][1]
                 IN  IF RemoteSucceeded(i)
                     THEN /\ g_out[i] = 1
                          /\ s.generation_method = "hybrid"
                          /\ s.content = g_ret[i][1].text[1].words
                          /\ s.length = WordCount(s.content)
                          /\ \E base \in TemplateStories(i) :
                                /\ Deviates(base)
                                /\ s.title = base.title
                                /\ s.agent_id = base.agent_id
                                /\ s.moral = base.moral
                     ELSE /\ s \in TemplateStories(i)
                          /\ s.generation_method = "template"
                          /\ g_out[i] = 1 <=> (claude_available /\ Deviates(s))

\* an agent whose template story was far from the target called the remote
\* generator and returned the hybrid story, while another, whose call
\* returned nothing, returned its template story
C24_Witness ==
    /\ p_pc = "gather"
    /\ Lower(p_req.moral) \in TemplateKeys
    /\ \E i, j \in Agents :
          /\ p_task[i] = "done" /\ RemoteSucceeded(i)
          /\ p_stories[i][1].generation_method = "hybrid"
          /\ p_task[j] = "done" /\ g_out[j] = 1 /\ ~RemoteSucceeded(j)
          /\ p_stories[j][1].generation_method = "template"

\* C25: when the moral matches no template and the remote generator is
\* available, the agent calls the remote generator once; when the call
\* returns a text the agent returns a Story whose content is that text and
\* whose generation_method is the remote one ("claude" in the code), and
\* when it returns nothing the agent returns the generic fallback story and
\* nothing is raised.
C25_RemoteStoryOrFallback ==
    (p_pc # "idle" /\ Lower(p_req.moral) \notin TemplateKeys /\ claude_available) =>
        /\ ~p_raised
        /\ p_pc = "gather" => \A i \in Agents :
              /\ g_out[i] = (IF p_task[i] = "new" THEN 0 ELSE 1)
              /\ p_task[i] \in {"new", "await_claude", "done"}
              /\ p_task[i] = "done" =>
                    LET s == p_stories[i][1]
                    IN  /\ s.length = WordCount(s.content)
                        /\ s.moral = p_req.moral
                        /\ IF RemoteSucceeded(i)
                           THEN /\ s.content = g_ret[i][1].text[1].words
                                /\ s.generation_method = "claude"
                           ELSE /\ s.content \in adjust_story_length_basic(
                                        FallbackText(p_req.moral), p_req.target)
                                /\ s.title = GeneratedTitle(p_req.moral)

\* one agent returned the remote text, another, whose call returned nothing,
\* the fallback story with its mention of the moral
C25_Witness ==
    /\ p_pc = "gather"
    /\ Lower(p_req.moral) \notin TemplateKeys
    /\ claude_available
    /\ \E i, j \in Agents :
          /\ p_task[i] = "done" /\ RemoteSucceeded(i)
          /\ p_stories[i][1].generation_method = "claude"
          /\ p_task[j] = "done" /\ g_ret[j] # << >> /\ ~RemoteSucceeded(j)
          /\ p_stories[j][1].length >= WordCount(FallbackText(p_req.moral))

\* C26: every Story an agent returns and the story the pipeline returns, on
\* every path (template, hybrid, remote, generic fallback), has a length
\* field equal to the word count of its content, and the score the pipeline
\* reports for the winner is StoryRanker.score_story of that winner with the
\* request's target length and moral.
C26_LengthIsWordCountAndScoreIsRanker ==
    /\ \A i \in Agents :
          p_stories[i] # << >> =>
              p_stories[i][1].length = WordCount(p_stories[i][1].content)
    /\ p_result # << >> =>
          LET winner == p_stories[1][1]
          IN  /\ p_result[1].content = winner.content
              /\ p_result[1].length = WordCount(p_result[1].content)
              /\ p_result[1].score =
                    score_story([winner EXCEPT !.score = NoScore],
                                p_req.target, p_req.moral)

\* a run returned a story whose content came from the remote generator,
\* ahead of a fallback story padded to the target
C26_Witness ==
    /\ p_result # << >>
    /\ p_result[1].generation_method \in {"hybrid", "claude"}
    /\ p_result[1].length > 0
    /\ \E i \in Agents :
          /\ p_stories[i][1].generation_method = "template"
          /\ p_stories[i][1].length > WordCount(BaseStory(p_req.moral))

\* C27: with the agent's length adjustment (_adjust_story_length_basic and
\* its filler sentences of 6, 8 and 7 words), for every template and every
\* target length >= 0 the adjusted template is at most 10 words away from
\* the target, so the agent never takes the remote-enhancement branch and no
\* story with generation_method hybrid is produced, even when the remote
\* generator is available.
C27_TemplateNeverFarOffNoHybrid ==
    (p_pc # "idle" /\ Lower(p_req.moral) \in TemplateKeys /\ p_req.target >= 0) =>
        /\ \A i \in Agents :
              /\ g_out[i] = 0
              /\ p_task[i] \in {"new", "done"}
              /\ p_stories[i] # << >> =>
                    /\ p_stories[i][1].generation_method = "template"
                    /\ Abs(p_stories[i][1].length - p_req.target) <= 10
        /\ p_result # << >> => p_result[1].generation_method = "template"

\* with the remote generator available, a run for a template returned a
\* story 7 words longer than its target, the furthest the padding goes
C27_Witness ==
    /\ p_result # << >>
    /\ claude_available
    /\ Lower(p_req.moral) \in TemplateKeys
    /\ p_req.target > 0
    /\ p_result[1].length = p_req.target + 7

----------------------------------------------------------------------------
(* Properties of the client and the servers it reaches (SpecClient) *)

\* C21: after startup the availability map never changes and no backend is
\* probed again: no sequence of generate_story, narrate_text and list_voices
\* requests, those issued through the client's call_tool included, modifies
\* the availability of any backend.
C21_AvailabilityReadOnly == [][voice_engines' = voice_engines]_vars

\* the fixed server refuses a voice whose engine is marked unavailable, so a
\* pyttsx3 file next to an unavailable pyttsx3 means the map changed after
\* a request was served
C21_ProbedAgain ==
    /\ variant = "fixed"
    /\ \E f \in files : f.name.ext = "wav"
    /\ ~voice_engines["pyttsx3"]


\* the arguments of the generate_story request being handled by the fixed
\* server: narrate is true, a non-empty voice_id was supplied
NarrateAsked == ~Falsy(Get(r_req[1].audio, BoolV(FALSE)))

VoiceSupplied == ~Falsy(r_req[1].voice_id)

\* C28: the generate_story handler of the fixed server calls the narration
\* dispatcher if and only if narrate is true and a non-empty voice_id was
\* supplied; with narrate true and voice_id omitted (or empty) no backend is
\* attempted and the result has no voice_narration field, and with narrate
\* false no backend is ever attempted.  The same holds for requests the
\* client sends.
C28_NarratedIffAskedWithVoice ==
    (variant = "fixed" /\ r_req # << >> /\ r_req[1].tool = "generate_story") =>
        /\ calls[ReqCall].pc # "idle" => (NarrateAsked /\ VoiceSupplied)
        /\ (r_pc = "done" /\ r_story # << >>) =>
              IF NarrateAsked /\ VoiceSupplied
              THEN r_req[1].voice_id.t = "str" =>
                      /\ calls[ReqCall].pc = "done"
                      /\ r_resp[1].kind = "story"
                      /\ r_resp[1].voice_narration = calls[ReqCall].result
              ELSE /\ calls[ReqCall] = IdleCall
                   /\ r_resp[1].kind = "story"
                   /\ r_resp[1].voice_narration = << >>

\* narrate was true and no voice_id was given: the story came back without
\* narration and no backend ran, on a machine with a working pyttsx3
C28_Witness ==
    /\ variant = "fixed"
    /\ r_pc = "done"
    /\ r_story # << >>
    /\ r_req[1].tool = "generate_story"
    /\ r_req[1].audio = BoolV(TRUE)
    /\ r_req[1].voice_id = None
    /\ voice_engines["pyttsx3"]
    /\ calls[ReqCall] = IdleCall
    /\ r_resp[1].voice_narration = << >>

----------------------------------------------------------------------------
\* C29: a narrate_story call never invokes the synthesis routine of a backend
\* the availability map marks unavailable; when the backend of the resolved
\* profile is unavailable the call returns success = false without any
\* synthesis.  This holds in every variant, also when the backend was marked
\* unavailable after the profiles were created.
C29_UnavailableBackendNeverSynthesizes ==
    \A c \in Calls :
        /\ \A k \in 1..Len(calls[c].attempts) : voice_engines[calls[c].attempts[k]]
        /\ (calls[c].profile # << >> /\ ~voice_engines[calls[c].profile[1].engine]) =>
              /\ calls[c].pc = "done"
              /\ calls[c].attempts = << >>
              /\ ~calls[c].result[1].success

\* real: pyttsx3 was marked unavailable by a failed init() after its
\* profiles were created, gtts works, and a call ran the pyttsx3 routine
C29_SynthesisOnUnavailableBackend ==
    /\ variant = "real"
    /\ ~voice_engines["pyttsx3"]
    /\ voice_engines["gtts"]
    /\ \E c \in Calls :
          /\ calls[c].profile # << >>
          /\ calls[c].profile[1].engine = "pyttsx3"
          /\ calls[c].attempts = << "pyttsx3" >>


----------------------------------------------------------------------------
(* Properties of the padding loop (SpecPad) *)

\* C30: the padding loop of the length adjuster terminates for every input
\* text, every target length and every sequence of random filler picks, in
\* the three variants (picks removed from the pool, picks repeated from a
\* fixed pool): every call of the adjuster eventually returns, with a text
\* the adjuster can return.
C30_PaddingLoopTerminates ==
    /\ <>(pad.pc = "done")
    /\ [](pad.pc = "done" =>
            /\ adj_out # << >>
            /\ adj_out[1] \in AdjustLength(variant, adj_in.text, adj_in.target))

\* a call returned after two rounds or more of its loop
C30_Witness ==
    /\ pad.pc = "done"
    /\ pad.rounds >= 2
    /\ adj_out # << >>
    /\ WordCount(adj_out[1]) >= adj_in.target


====
